---- MODULE Spec2Model ----
(***************************************************************************)
(* Model of the astra RAG backend: document ingestion (core/ingest.py),    *)
(* embedding indexing (core/indexing.py), deletion (api/routes/ingest.py)  *)
(* and query / context assembly with its LRU caches (core/query.py).       *)
(*                                                                         *)
(* Strings are sequences of one-character strings; Python's 0-based        *)
(* offsets are kept and converted at the point of indexing.  The route     *)
(* handlers are "async def" functions that never await while they work on  *)
(* the stores, so requests run one at a time; a request is modelled as a   *)
(* sequence of steps of the single running operation.                      *)
(***************************************************************************)
EXTENDS Integers, Sequences, FiniteSets, TLC

\* ------------------------------------------------------------------ bounds
\* Chunking parameters of the pipeline, scaled down from 800/160/100/1500.
ChunkSize == 4
ChunkOverlap == 1
MinChunkSize == 2
MaxChunkSize == 6
\* Upper limit on loop iterations of chunk_text explored by the model.
MaxChunkIter == 24
\* Number of index requests and of retrieve / assemble requests in one
\* behaviour (ingest and delete requests are limited by the document ids).
MaxIndexRuns == 1
MaxQueries == 2
\* Number of concurrent requests (tasks of the event loop) and of calls they
\* make on the shared singletons and caches in one behaviour.
MaxTasks == 2
MaxCalls == 3
\* Longest input text of normalize_text and of chunk_text examined on their own.
MaxTextLen == 4
MaxChunkTextLen == 7
\* Number of get, put and clear calls made on one LRUCache on its own.
MaxCacheOps == 5
\* QueryRetriever cache_size (128 by default), scaled down so that the LRU
\* caches evict.
CacheSize == 2
\* Length of the long query.
LongQueryLen == 260

\* ------------------------------------------------------- program constants
\* defaults of EmbeddingIndexer.__init__
initial_batch_size == 6
min_batch_size == 2
max_batch_size == 8
min_repeats == 3
HeaderLineLimit == 100
\* len(str(uuid.uuid4()))
UuidLen == 36
\* len() of the literal pieces of the assembled context
HeaderLen == 134
PagePrefixLen == 9
SourceHeaderFixedLen == 35
SourceFooterLen == 2
QuestionFrameLen == 18
EmptyNoticeLen == 28
EmptyQuestionFrameLen == 17

\* ------------------------------------------------------------- characters
NL == "\n"
CR == "\r"
TAB == "\t"
FF == "\f"
SP == " "
\* U+2003 (a Unicode space) and U+200B (zero width space), kept as tokens.
EMSP == "u2003"
ZWSP == "u200b"

\* str.isspace() over the model's alphabet
IsSpace(c) == c \in {SP, NL, CR, TAB, FF, EMSP}

\* [\x00-\x08\x0b-\x0c\x0e-\x1f\x7f-\x9f]
IsControl(c) == c \in {FF}

\* [\u2000-\u200b\u2028-\u2029\u3000]
IsUnicodeSpace(c) == c \in {EMSP, ZWSP}

IsTerminator(c) == c \in {".", "!", "?"}

\* str.lower() on one character
LowerChar(c) ==
    IF c = "A" THEN "a" ELSE IF c = "B" THEN "b"
    ELSE IF c = "T" THEN "t" ELSE IF c = "X" THEN "x" ELSE c

Max(a, b) == IF a >= b THEN a ELSE b
Min(a, b) == IF a <= b THEN a ELSE b

\* text[i] with Python's 0-based index
At(text, i) == text[i + 1]

\* text[a:b] with Python's slice semantics (0 <= a)
Slice(text, a, b) == SubSeq(text, a + 1, Min(b, Len(text)))

\* ------------------------------------------------------- string utilities
RECURSIVE LStrip(_)
LStrip(s) ==
    IF s = << >> THEN << >>
    ELSE IF IsSpace(Head(s)) THEN LStrip(Tail(s)) ELSE s

RECURSIVE RStrip(_)
RStrip(s) ==
    IF s = << >> THEN << >>
    ELSE IF IsSpace(s[Len(s)]) THEN RStrip(SubSeq(s, 1, Len(s) - 1)) ELSE s

Strip(s) == RStrip(LStrip(s))

Lower(s) == [i \in 1..Len(s) |-> LowerChar(s[i])]

\* str.split(sep) for a one-character separator
RECURSIVE SplitFrom(_, _, _, _)
SplitFrom(s, sep, cur, acc) ==
    IF s = << >> THEN Append(acc, cur)
    ELSE IF Head(s) = sep THEN SplitFrom(Tail(s), sep, << >>, Append(acc, cur))
    ELSE SplitFrom(Tail(s), sep, Append(cur, Head(s)), acc)

Split(s, sep) == SplitFrom(s, sep, << >>, << >>)

\* sep.join(parts)
RECURSIVE Join(_, _)
Join(parts, sep) ==
    IF parts = << >> THEN << >>
    ELSE IF Len(parts) = 1 THEN parts[1]
    ELSE parts[1] \o <<sep>> \o Join(Tail(parts), sep)

\* re.sub(c{n,}, c * keep): every maximal run of at least n copies of c
\* becomes keep copies.
RECURSIVE RunLength(_, _)
RunLength(s, c) ==
    IF s = << >> \/ Head(s) # c THEN 0 ELSE 1 + RunLength(Tail(s), c)

RECURSIVE CollapseRuns(_, _, _, _)
CollapseRuns(s, c, n, keep) ==
    IF s = << >> THEN << >>
    ELSE IF Head(s) = c
         THEN LET r == RunLength(s, c)
                  out == IF r >= n THEN [i \in 1..keep |-> c] ELSE [i \in 1..r |-> c]
              IN out \o CollapseRuns(SubSeq(s, r + 1, Len(s)), c, n, keep)
         ELSE <<Head(s)>> \o CollapseRuns(Tail(s), c, n, keep)

\* text.replace("\r\n", "\n").replace("\r", "\n")
RECURSIVE NormalizeLineEndings(_)
NormalizeLineEndings(s) ==
    IF s = << >> THEN << >>
    ELSE IF Head(s) = CR
         THEN IF Len(s) >= 2 /\ s[2] = NL
              THEN <<NL>> \o NormalizeLineEndings(SubSeq(s, 3, Len(s)))
              ELSE <<NL>> \o NormalizeLineEndings(Tail(s))
         ELSE <<Head(s)>> \o NormalizeLineEndings(Tail(s))

\* re.sub(class, "", text)
RECURSIVE RemoveControl(_)
RemoveControl(s) ==
    IF s = << >> THEN << >>
    ELSE IF IsControl(Head(s)) THEN RemoveControl(Tail(s))
    ELSE <<Head(s)>> \o RemoveControl(Tail(s))

UnicodeSpaceToSpace(c) == IF IsUnicodeSpace(c) THEN SP ELSE c

\* -------------------------------------------- text_utils.normalize_text
\* Number of lines whose stripped, lower-cased form is key.
CountLine(lines, key) ==
    Cardinality({i \in 1..Len(lines) : Lower(Strip(lines[i])) = key})

\* the set "repeated_lines"
RepeatedLines(lines) ==
    {Lower(Strip(lines[i])) : i \in
        {j \in 1..Len(lines) :
            LET k == Lower(Strip(lines[j]))
            IN /\ Len(k) > 0
               /\ Len(k) < HeaderLineLimit
               /\ CountLine(lines, k) >= min_repeats}}

\* keep a line unless it is a repeated line already seen earlier
KeepLine(lines, rep, i) ==
    LET k == Lower(Strip(lines[i]))
    IN k \in rep => \A j \in 1..(i - 1) : Lower(Strip(lines[j])) # k

RECURSIVE FilterLines(_, _, _)
FilterLines(lines, rep, i) ==
    IF i > Len(lines) THEN << >>
    ELSE (IF KeepLine(lines, rep, i) THEN <<lines[i]>> ELSE << >>)
         \o FilterLines(lines, rep, i + 1)

remove_repeated_headers_footers(text) ==
    LET lines == Split(text, NL)
        rep == RepeatedLines(lines)
    IN IF Len(lines) < min_repeats * 2 THEN text
       ELSE IF rep = {} THEN text
       ELSE Join(FilterLines(lines, rep, 1), NL)

normalize_text(text) ==
    IF text = << >> THEN << >>
    ELSE LET s1 == NormalizeLineEndings(text)
             s2 == CollapseRuns(s1, NL, 3, 2)
             l3 == Split(s2, NL)
             s3 == Join([i \in 1..Len(l3) |-> RStrip(l3[i])], NL)
             s4 == RemoveControl(s3)
             s5 == [i \in 1..Len(s4) |-> UnicodeSpaceToSpace(s4[i])]
             s6 == CollapseRuns(s5, SP, 2, 1)
             s7 == remove_repeated_headers_footers(s6)
             s8 == CollapseRuns(s7, NL, 3, 2)
         IN Strip(s8)

\* text_utils.estimate_tokens
estimate_tokens(text) == IF text = << >> THEN 0 ELSE Len(text) \div 4

\* ------------------------------------------------- chunking.chunk_text
NoPage == "None"

SetMax(S) == CHOOSE x \in S : \A y \in S : y <= x

\* for i in range(position, search_start - 1, -1): if i < len(text) - 1: ...
SentenceBreaks(text, position, search_start) ==
    {i \in search_start..position :
        /\ i < Len(text) - 1
        /\ IsTerminator(At(text, i))
        /\ (i = Len(text) - 1 \/ IsSpace(At(text, i + 1)))}

ParagraphBreaks(text, position, search_start) ==
    {i \in search_start..position :
        /\ i < Len(text) - 1
        /\ At(text, i) = NL
        /\ (i = 0 \/ At(text, i - 1) = NL)}

WordBreaks(text, position, search_start) ==
    {i \in search_start..position :
        /\ i < Len(text) - 1
        /\ IsSpace(At(text, i))
        /\ ~IsSpace(At(text, i + 1))}

\* chunking._find_break_point
find_break_point(text, position, lookback) ==
    LET search_start == Max(0, position - lookback)
        s == SentenceBreaks(text, position, search_start)
        p == ParagraphBreaks(text, position, search_start)
        w == WordBreaks(text, position, search_start)
    IN IF s # {} THEN SetMax(s) + 1
       ELSE IF p # {} THEN SetMax(p) + 1
       ELSE IF w # {} THEN SetMax(w) + 1
       ELSE position

\* the "Validate parameters" block of chunk_text
EffectiveOverlap(chunk_size, chunk_overlap) ==
    IF chunk_overlap >= chunk_size THEN Max(1, chunk_size \div 10) ELSE chunk_overlap

EffectiveChunkSize(chunk_size, min_chunk_size, max_chunk_size) ==
    LET c1 == IF chunk_size > max_chunk_size THEN max_chunk_size ELSE chunk_size
    IN IF c1 < min_chunk_size THEN min_chunk_size ELSE c1

\* One iteration of the while loop of chunk_text from position start:
\* the chosen end and the stripped chunk text.
ChunkStep(text, start, cs, mn) ==
    LET N == Len(text)
        end0 == Min(start + cs, N)
        bp == IF end0 < N THEN find_break_point(text, end0, cs \div 4) ELSE end0
        end1 == IF end0 < N /\ bp > start + mn THEN bp ELSE end0
        content1 == Strip(Slice(text, start, end1))
        extend == Len(content1) < mn /\ end1 < N
        end2 == IF extend THEN Min(start + mn, N) ELSE end1
        content == IF extend THEN Strip(Slice(text, start, end2)) ELSE content1
    IN [end |-> end2, content |-> content]

\* The while loop of chunk_text; fuel counts the iterations still explored.
\* done is FALSE when the loop has not ended within the explored iterations.
RECURSIVE ChunkLoop(_, _, _, _, _, _, _)
ChunkLoop(text, start, acc, cs, ov, mn, fuel) ==
    IF ~(start < Len(text)) THEN [chunks |-> acc, done |-> TRUE]
    ELSE IF fuel = 0 THEN [chunks |-> acc, done |-> FALSE]
    ELSE LET st == ChunkStep(text, start, cs, mn)
             acc2 == IF st.content # << >>
                     THEN Append(acc, [text |-> st.content,
                                       start_char |-> start,
                                       end_char |-> st.end,
                                       chunk_id |-> Len(acc),
                                       page_number |-> NoPage])
                     ELSE acc
         IN IF st.end >= Len(text) THEN [chunks |-> acc2, done |-> TRUE]
            ELSE ChunkLoop(text, Max(0, st.end - ov), acc2, cs, ov, mn, fuel - 1)

ChunkRun(text, chunk_size, chunk_overlap, min_chunk_size, max_chunk_size) ==
    IF text = << >> \/ Strip(text) = << >> THEN [chunks |-> << >>, done |-> TRUE]
    ELSE ChunkLoop(text, 0, << >>,
                   EffectiveChunkSize(chunk_size, min_chunk_size, max_chunk_size),
                   EffectiveOverlap(chunk_size, chunk_overlap),
                   min_chunk_size, MaxChunkIter)

\* chunking.chunk_text for a document without page texts (pages=None)
chunk_text(text, chunk_size, chunk_overlap, min_chunk_size, max_chunk_size) ==
    ChunkRun(text, chunk_size, chunk_overlap, min_chunk_size, max_chunk_size).chunks

\* ------------------------------------------------------------------ inputs
\* Document ids (uuid4 values) and the uploaded files.  A file is named by
\* what its parser makes of it: a ValueError, or the parsed text.
Docs == {"d1", "d2"}

\* ' \n'
TextBlank == <<" ", "\n">>
\* 'ab ba. a b\r\n\r\n\r\nb.  a'
TextFive == <<"a", "b", " ", "b", "a", ".", " ", "a", " ", "b", "\r", "\n", "\r", "\n", "\r", "\n", "b", ".", " ", " ", "a">>
\* 'ab a. bb ab. a ba. b aa. ab b. a b'
TextTen == <<"a", "b", " ", "a", ".", " ", "b", "b", " ", "a", "b", ".", " ", "a", " ", "b", "a", ".", " ", "b", " ", "a", "a", ".", " ", "a", "b", " ", "b", ".", " ", "a", " ", "b">>

\* 'ab a. bb ab. a ba. b aa. ab b. a b. ba a. bb ab. a ba'
TextSixteen == TextTen \o <<".", " ", "b", "a", " ", "a", ".", " ", "b", "b", " ", "a", "b", ".", " ", "a", " ", "b", "a">>

Files == {"unparsable", "blank", "ten", "sixteen"}

ParsedText(file) ==
    CASE file = "blank" -> TextBlank
      [] file = "five" -> TextFive
      [] file = "ten" -> TextTen
      [] file = "sixteen" -> TextSixteen

\* ------------------------------------------------------------------- state
VARIABLES
    documents,          \* documents table: doc id -> committed row
    chunk_rows,         \* chunks table: doc id -> committed rows, by chunk_id
    vstore,             \* the Chroma collection, entries in insertion order
    issued,             \* doc ids handed out by uuid4 so far
    pc,                 \* control point of the running request
    ing,                \* locals of the running ingest_document call
    idx,                \* locals of the running index_document_chunks call
    indexer,            \* the EmbeddingIndexer's constructor arguments
    current_batch_size, \* EmbeddingIndexer.current_batch_size
    chunks_cache,       \* QueryRetriever.chunks_cache
    context_cache,      \* QueryRetriever.context_cache
    last,               \* outcome of the request that has just ended
    history,            \* assemble_context calls made so far, in order
    nIndex,             \* index requests made so far
    nQuery,             \* query requests made so far
    running,            \* the task that holds the event loop thread, or "none"
    task,               \* task -> the call on a shared object it is executing
    singletons,         \* module global -> instance it refers to (0 is None)
    constructions,      \* module global -> constructor calls made for it
    nCalls,             \* calls on shared objects made so far
    call,               \* a call of a pure function: its arguments and results
    user_ids            \* documents table, user_id column: doc id -> owner

vars == <<documents, chunk_rows, vstore, issued, pc, ing, idx, indexer,
          current_batch_size,
          chunks_cache, context_cache, last, history, nIndex, nQuery,
          running, task, singletons, constructions, nCalls, call, user_ids>>

\* what a request that does not touch the event loop bookkeeping leaves alone
eventloop == <<running, task, singletons, constructions, nCalls>>

NoDoc == [status |-> "absent", total_chunks |-> 0, total_characters |-> 0,
          error_message |-> "None"]

NoIng == [doc_id |-> "none", file |-> "none", filename |-> << >>, file_size |-> 0,
          text |-> << >>, chunks |-> << >>, error |-> "None"]

NoIdx == [doc_id |-> "none", skip_existing |-> FALSE, total_chunks |-> 0,
          selected |-> << >>, stride |-> 0, batch_idx |-> 0, all |-> << >>,
          errors |-> << >>, log |-> << >>, lookup |-> TRUE,
          memory_after_bound |-> FALSE]

NoResult == [op |-> "none"]

Exists(d) == documents[d].status # "absent"

\* ------------------------------------------------ the vector store adapter
\* f"{doc_id}_{chunk.chunk_id}"
CompositeId(d, chunk_id) == <<d, "_", chunk_id>>

\* the id / document / metadata triple written for one chunk
Entry(d, chunk) ==
    [id |-> CompositeId(d, chunk.chunk_id), doc_id |-> d,
     chunk_id |-> chunk.chunk_id, page_number |-> chunk.page_number,
     text |-> chunk.text]

StoreIds(store) == {store[i].id : i \in 1..Len(store)}

\* collection.get(where={"doc_id": d})["ids"]
IdsOfDoc(store, d) == {store[i].id : i \in {j \in 1..Len(store) : store[j].doc_id = d}}

\* collection.add: entries are stored in order; an id already in the
\* collection is not stored a second time.
RECURSIVE AddEntries(_, _)
AddEntries(store, entries) ==
    IF entries = << >> THEN store
    ELSE AddEntries(IF Head(entries).id \in StoreIds(store) THEN store
                    ELSE Append(store, Head(entries)),
                    Tail(entries))

add_embeddings_to_chroma(store, d, chunks) ==
    AddEntries(store, [i \in 1..Len(chunks) |-> Entry(d, chunks[i])])

\* collection.delete(where={"doc_id": d})
KeepOthers(store, d) == SelectSeq(store, LAMBDA e : e.doc_id # d)

delete_embeddings_from_chroma(store, d) == KeepOthers(store, d)

\* what a failed collection.add may leave behind: nothing, or all but the
\* last entry
PartialAdds(store, d, chunks) ==
    {store, add_embeddings_to_chroma(store, d, SubSeq(chunks, 1, Len(chunks) - 1))}

\* ------------------------------------------------- ingest.ingest_document
\* an id generator that hands out the same id again
FreshIdReused == "d1"

\* doc_id = uuid.uuid4(): an id no earlier request was given (line 87)
FreshId == IF "d1" \notin issued THEN "d1" ELSE "d2"

\* ---- the upload route and the start of ingest_document
\* file names of uploads: "a.TXT", "a.exe", "a.text" and "a"
FnTxt == <<"a", ".", "T", "X", "T">>
FnExe == <<"a", ".", "e", "x", "e">>
FnText == <<"a", ".", "t", "e", "x", "t">>
FnBare == <<"a">>
Filenames == {FnTxt, FnExe, FnText, FnBare}

HasDot(filename) == \E i \in 1..Len(filename) : filename[i] = "."

LastPart(filename) == LET parts == Split(filename, ".") IN parts[Len(parts)]

\* the route's set with the extension detect_file_type also takes
allowed_extensions_and_text ==
    {<<".", "p", "d", "f">>, <<".", "d", "o", "c", "x">>, <<".", "d", "o", "c">>,
     <<".", "t", "x", "t">>, <<".", "h", "t", "m", "l">>, <<".", "h", "t", "m">>,
     <<".", "t", "e", "x", "t">>}

\* routes/ingest.py line 100
allowed_extensions ==
    {<<".", "p", "d", "f">>, <<".", "d", "o", "c", "x">>, <<".", "d", "o", "c">>,
     <<".", "t", "x", "t">>, <<".", "h", "t", "m", "l">>, <<".", "h", "t", "m">>}

\* "." + file.filename.split(".")[-1].lower() if "." in file.filename else ""
file_ext(filename) ==
    IF HasDot(filename) THEN <<".">> \o Lower(LastPart(filename)) ELSE << >>

\* 50 * 1024 * 1024 (routes/ingest.py line 121)
max_size == 50 * 1024 * 1024

\* sizes of the uploaded content, around the limit
UploadSizes == {max_size - 1, max_size, max_size + 1}

\* BaseParser.detect_file_type: the type, or "ValueError"
detect_file_type(filename) ==
    LET ext == IF HasDot(filename) THEN LastPart(Lower(filename)) ELSE << >>
    IN IF ext = <<"p", "d", "f">> THEN "pdf"
       ELSE IF ext \in {<<"d", "o", "c", "x">>, <<"d", "o", "c">>} THEN "docx"
       ELSE IF ext \in {<<"t", "x", "t">>, <<"t", "e", "x", "t">>} THEN "txt"
       ELSE IF ext \in {<<"h", "t", "m", "l">>, <<"h", "t", "m">>} THEN "html"
       ELSE "ValueError"

\* The users of the service, each named by the text of its user_id, a
\* UUID.  The owner form field of an upload is such a text, a text that is
\* not a UUID, or absent.
Users == {"u1", "u2"}
NoUser == "None"
NoOwner == "None"
OwnerInputs == Users \cup {NoOwner, "bob"}

\* ingest_document, lines 97-105: the owner becomes the row's user_id when
\* it parses as a UUID; an absent or unparsable owner leaves user_id None
OwnerUserId(owner) ==
    IF owner # NoOwner /\ owner \in Users THEN owner ELSE NoUser

\* the request is answered with an HTTPException before anything is stored
RejectUpload(filename, file_size, status_code) ==
    /\ last' = [op |-> "upload", outcome |-> "rejected", filename |-> filename,
                file_size |-> file_size, status_code |-> status_code]
    /\ UNCHANGED <<user_ids, call, eventloop, indexer, documents, chunk_rows, vstore, issued, pc, ing,
                   idx, current_batch_size, chunks_cache, context_cache, history,
                   nIndex, nQuery>>

\* ingest_document up to the first commit (lines 87-118): an unsupported
\* type raises ValueError before the row is created (lines 91-95, answered
\* 400 by the route); otherwise the row is created with status PROCESSING
\* and committed
IngestDocumentBegin(file, filename, file_size, owner) ==
    IF detect_file_type(filename) = "ValueError"
    THEN RejectUpload(filename, file_size, 400)
    ELSE
    /\ issued # Docs
    /\ LET d == FreshId
       IN /\ issued' = issued \cup {d}
          /\ documents' = [documents EXCEPT ![d] =
                              [status |-> "processing", total_chunks |-> 0,
                               total_characters |-> 0, error_message |-> "None"]]
          /\ user_ids' = [user_ids EXCEPT ![d] = OwnerUserId(owner)]
          /\ ing' = [NoIng EXCEPT !.doc_id = d, !.file = file,
                                  !.filename = filename, !.file_size = file_size]
    /\ pc' = "ing_parse"
    /\ last' = NoResult
    /\ UNCHANGED <<call, eventloop, indexer, chunk_rows, vstore, idx, current_batch_size,
                   chunks_cache, context_cache, history, nIndex, nQuery>>

\* POST /upload (routes/ingest.py lines 88-147): extension check, size
\* check, then ingest_document
UploadDocument(file, filename, file_size, owner) ==
    /\ pc = "idle"
    /\ IF file_ext(filename) \notin allowed_extensions
       THEN RejectUpload(filename, file_size, 400)
       ELSE IF file_size > max_size
       THEN RejectUpload(filename, file_size, 413)
       ELSE IngestDocumentBegin(file, filename, file_size, owner)

\* an upload that passes the checks of the route
IngestCreate(file) == UploadDocument(file, FnTxt, max_size - 1, NoOwner)

\* steps 1-3: parse, normalize, chunk (lines 121-145)
IngestParse ==
    /\ pc = "ing_parse"
    /\ IF ing.file = "unparsable"
       THEN /\ ing' = [ing EXCEPT !.error = "Failed to parse"]
            /\ pc' = "ing_except"
       ELSE LET normalized_text == normalize_text(ParsedText(ing.file))
                run == ChunkRun(normalized_text, ChunkSize, ChunkOverlap,
                                MinChunkSize, MaxChunkSize)
            IN /\ run.done
               /\ IF run.chunks = << >>
                  THEN /\ ing' = [ing EXCEPT !.text = normalized_text,
                                             !.error = "No chunks created from document"]
                       /\ pc' = "ing_except"
                  ELSE /\ ing' = [ing EXCEPT !.text = normalized_text,
                                             !.chunks = run.chunks]
                       /\ pc' = "ing_store"
    /\ UNCHANGED <<user_ids, call, eventloop, indexer, documents, chunk_rows, vstore, issued, idx, current_batch_size,
                   chunks_cache, context_cache, last, history, nIndex, nQuery>>

\* the chunk rows added to the session (lines 149-163)
DbChunks(chunks) ==
    [i \in 1..Len(chunks) |->
        [chunk_id |-> chunks[i].chunk_id, start_char |-> chunks[i].start_char,
         end_char |-> chunks[i].end_char, page_number |-> chunks[i].page_number,
         text |-> chunks[i].text, token_count |-> estimate_tokens(chunks[i].text)]]

\* a row marked indexed whose counters were never set
IndexedRowNoCounters(db_chunks, normalized_text) ==
    [status |-> "indexed", total_chunks |-> 0, total_characters |-> 0,
     error_message |-> "None"]

\* the counters and status set before the commit (lines 169-172)
IndexedRow(db_chunks, normalized_text) ==
    [status |-> "indexed", total_chunks |-> Len(db_chunks),
     total_characters |-> Len(normalized_text), error_message |-> "None"]

\* step 4: chunk rows and counters, one commit (lines 147-174); the commit
\* either succeeds or raises and leaves nothing of the transaction behind
IngestStore(ok) ==
    /\ pc = "ing_store"
    /\ \/ /\ ok
          /\ chunk_rows' = [chunk_rows EXCEPT ![ing.doc_id] = DbChunks(ing.chunks)]
          /\ documents' = [documents EXCEPT ![ing.doc_id] =
                              IndexedRow(DbChunks(ing.chunks), ing.text)]
          /\ pc' = "ing_embed"
          /\ UNCHANGED ing
       \/ /\ ~ok
          /\ ing' = [ing EXCEPT !.error = "commit failed"]
          /\ pc' = "ing_except"
          /\ UNCHANGED <<documents, chunk_rows>>
    /\ UNCHANGED <<user_ids, call, eventloop, indexer, vstore, issued, idx, current_batch_size, chunks_cache,
                   context_cache, last, history, nIndex, nQuery>>

\* step 5: generate_embeddings for all chunk texts (lines 176-185)
IngestEmbed(ok) ==
    /\ pc = "ing_embed"
    /\ \/ /\ ok
          /\ pc' = "ing_upsert"
          /\ UNCHANGED ing
       \/ /\ ~ok
          /\ ing' = [ing EXCEPT !.error = "embedding failed"]
          /\ pc' = "ing_except"
    /\ UNCHANGED <<user_ids, call, eventloop, indexer, documents, chunk_rows, vstore, issued, idx, current_batch_size,
                   chunks_cache, context_cache, last, history, nIndex, nQuery>>

\* step 6: add_embeddings_to_chroma, then return (lines 187-225)
IngestUpsert(ok) ==
    /\ pc = "ing_upsert"
    /\ \/ /\ ok
          /\ vstore' = add_embeddings_to_chroma(vstore, ing.doc_id, ing.chunks)
          /\ pc' = "idle"
          /\ last' = [op |-> "ingest", doc_id |-> ing.doc_id, outcome |-> "ok",
                      chunks |-> Len(ing.chunks), characters |-> Len(ing.text)]
          /\ ing' = NoIng
       \/ /\ ~ok
          /\ vstore' \in PartialAdds(vstore, ing.doc_id, ing.chunks)
          /\ ing' = [ing EXCEPT !.error = "add failed"]
          /\ pc' = "ing_except"
          /\ UNCHANGED last
    /\ UNCHANGED <<user_ids, call, eventloop, indexer, documents, chunk_rows, issued, idx, current_batch_size,
                   chunks_cache, context_cache, history, nIndex, nQuery>>

\* a handler that records the message and forgets the status
ErrorRowKeepsStatus(row, message) == [row EXCEPT !.error_message = message]

\* except Exception: status ERROR and the message, committed (lines 227-232)
ErrorRow(row, message) ==
    [row EXCEPT !.status = "error", !.error_message = message]

IngestExcept ==
    /\ pc = "ing_except"
    /\ documents' = [documents EXCEPT ![ing.doc_id] = ErrorRow(@, ing.error)]
    /\ pc' = "ing_cleanup"
    /\ UNCHANGED <<user_ids, call, eventloop, indexer, chunk_rows, vstore, issued, ing, idx, current_batch_size,
                   chunks_cache, context_cache, last, history, nIndex, nQuery>>

\* the vector store after the cleanup of the except block (lines 234-238)
CleanedStore(store, d) == delete_embeddings_from_chroma(store, d)

\* best-effort cleanup, then re-raise (lines 234-240)
IngestCleanup(ok) ==
    /\ pc = "ing_cleanup"
    /\ \/ /\ ok
          /\ vstore' = CleanedStore(vstore, ing.doc_id)
          /\ last' = [op |-> "ingest", doc_id |-> ing.doc_id, outcome |-> "raised",
                      error |-> ing.error, cleanup |-> "deleted"]
       \/ /\ ~ok
          /\ vstore' = vstore
          /\ last' = [op |-> "ingest", doc_id |-> ing.doc_id, outcome |-> "raised",
                      error |-> ing.error, cleanup |-> "failed"]
    /\ pc' = "idle"
    /\ ing' = NoIng
    /\ UNCHANGED <<user_ids, call, eventloop, indexer, documents, chunk_rows, issued, idx, current_batch_size,
                   chunks_cache, context_cache, history, nIndex, nQuery>>

\* ------------------------------------- routes/ingest.delete_document
\* The Chroma delete is attempted first and a failure is only logged; then
\* the row is deleted (cascading to its chunks) and committed.  A failed
\* commit is rolled back and reported as 500.
DeleteDocument(d, chroma_ok, commit_ok) ==
    /\ pc = "idle"
    /\ Exists(d)
    /\    /\ vstore' = IF chroma_ok THEN delete_embeddings_from_chroma(vstore, d)
                       ELSE vstore
          /\ IF commit_ok
             THEN /\ documents' = [documents EXCEPT ![d] = NoDoc]
                  /\ chunk_rows' = [chunk_rows EXCEPT ![d] = << >>]
                  /\ user_ids' = [user_ids EXCEPT ![d] = NoUser]
             ELSE UNCHANGED <<documents, chunk_rows, user_ids>>
          /\ last' = [op |-> "delete", doc_id |-> d, chroma_ok |-> chroma_ok,
                      outcome |-> IF commit_ok THEN "success" ELSE "error"]
    /\ UNCHANGED <<call, eventloop, indexer, issued, pc, ing, idx, current_batch_size, chunks_cache,
                   context_cache, history, nIndex, nQuery>>

\* ------------------------------------------- indexing.EmbeddingIndexer
\* __init__ stores its arguments as given, unchecked (lines 67-70)
EmbeddingIndexer(initial, min, max) ==
    [initial_batch_size |-> initial, min_batch_size |-> min, max_batch_size |-> max]

\* ----------------------------- indexing.EmbeddingIndexer.index_document_chunks
\* chunks whose composite id is not among existing_ids (lines 175-178)
ChunksToIndex(d, chunks, existing_ids) ==
    SelectSeq(chunks, LAMBDA c : CompositeId(d, c.chunk_id) \notin existing_ids)

\* The result of a run, with what the run did: the chunks it selected and
\* upserted, its batch log, whether the lookup of existing ids answered, and
\* the chunks that were missing from the collection when it began.
IndexReport(d, skip, outcome, chunks_indexed, total, x) ==
    [op |-> "index", doc_id |-> d, skip_existing |-> skip, outcome |-> outcome,
     chunks_indexed |-> chunks_indexed, total_chunks |-> total,
     errors |-> x.errors, selected |-> x.selected,
     upserted |-> IF outcome = "returned" THEN x.all ELSE << >>,
     log |-> x.log, lookup |-> x.lookup,
     missing |-> ChunksToIndex(d, chunk_rows[d], IdsOfDoc(vstore, d))]

\* lines 128-205: load the chunks, drop the ones already in the collection,
\* reset the batch size.  A failing collection.get is logged and ignored.
IndexStartLookup(d, skip, get_ok) ==
    /\ pc = "idle"
    /\ nIndex < MaxIndexRuns
    /\ Exists(d)
    /\ nIndex' = nIndex + 1
    /\ LET chunks == chunk_rows[d]
           existing_ids == IF skip /\ get_ok THEN IdsOfDoc(vstore, d) ELSE {}
           chunks_to_index == IF skip THEN ChunksToIndex(d, chunks, existing_ids)
                              ELSE chunks
       IN /\ (~skip => get_ok)
          /\ IF chunks = << >>
             THEN /\ last' = IndexReport(d, skip, "returned", 0, 0, NoIdx)
                  /\ UNCHANGED <<pc, idx, current_batch_size>>
             ELSE IF chunks_to_index = << >>
             THEN /\ last' = IndexReport(d, skip, "returned", 0, Len(chunks), NoIdx)
                  /\ UNCHANGED <<pc, idx, current_batch_size>>
             ELSE /\ current_batch_size' = indexer.initial_batch_size
                  /\ idx' = [NoIdx EXCEPT !.doc_id = d, !.skip_existing = skip,
                                          !.total_chunks = Len(chunks),
                                          !.selected = chunks_to_index,
                                          !.lookup = get_ok,
                                          !.stride = indexer.initial_batch_size]
                  /\ pc' = "idx_batch"
                  /\ last' = NoResult
    /\ UNCHANGED <<user_ids, call, eventloop, indexer, documents, chunk_rows, vstore, issued, ing, chunks_cache,
                   context_cache, history, nQuery>>

\* the lookup of the existing ids (collection.get) succeeds or fails
IndexStart(d, skip) == \E get_ok \in BOOLEAN : IndexStartLookup(d, skip, get_ok)

\* a recovery that grows the batch
DoubledBatchSize(size) == size * 2

\* max(self.min_batch_size, self.current_batch_size // 2)  (line 233)
HalvedBatchSize(size) == Max(indexer.min_batch_size, size \div 2)

\* the chunks of the batch at batch_idx (lines 208-209)
BatchChunks(selected, batch_idx, size) == Slice(selected, batch_idx, batch_idx + size)

\* (batch_idx // self.current_batch_size) + 1  (line 212)
BatchNum(batch_idx, size) == (batch_idx \div size) + 1

\* the next value of the for loop's range(0, len(chunk_texts), step), whose
\* step was read once, when the loop began (line 207)
NextBatchIdx(batch_idx, stride) == batch_idx + stride

\* One iteration of the batch loop (lines 207-287).  first and retry are
\* what the embedder does on the first call and on the retry after an
\* OutOfMemory: "ok", "oom" or "error".  The local memory_after is assigned
\* only after a first call that succeeded (line 226); the log line of a batch
\* (line 279) reads it after the chunks of the batch have been appended, and
\* raises UnboundLocalError into the outer except if it was never assigned.
IndexBatch(first, retry) ==
    /\ pc = "idx_batch"
    /\ LET size == current_batch_size
           batch == BatchChunks(idx.selected, idx.batch_idx, size)
           num == BatchNum(idx.batch_idx, size)
           halve == first = "oom" /\ size > indexer.min_batch_size
           embedded == first = "ok" \/ (halve /\ retry = "ok")
           bound == idx.memory_after_bound \/ first = "ok"
           errs == IF embedded
                   THEN IF bound THEN << >>
                        ELSE <<[msg |-> "Error processing batch", batch |-> num]>>
                   ELSE IF first = "oom" /\ ~halve
                   THEN <<[msg |-> "OOM at minimum batch size", batch |-> num],
                          [msg |-> "Error processing batch", batch |-> num]>>
                   ELSE <<[msg |-> "Error processing batch", batch |-> num]>>
           entry == [batch_idx |-> idx.batch_idx, chunks |-> Len(batch),
                     size |-> size,
                     first |-> first,
                     retry |-> retry,
                     embedded |-> embedded,
                     errors |-> errs]
           next == NextBatchIdx(idx.batch_idx, idx.stride)
       IN /\ (~halve => retry = "none")
          /\ (halve => retry # "none")
          /\ current_batch_size' = IF halve THEN HalvedBatchSize(size) ELSE size
          /\ idx' = [idx EXCEPT !.all = IF embedded THEN @ \o batch ELSE @,
                                !.errors = @ \o errs,
                                !.log = Append(@, entry),
                                !.memory_after_bound = bound,
                                !.batch_idx = next]
          /\ pc' = IF next < Len(idx.selected) THEN "idx_batch" ELSE "idx_persist"
    /\ UNCHANGED <<user_ids, call, eventloop, indexer, documents, chunk_rows, vstore, issued, ing, chunks_cache,
                   context_cache, last, history, nIndex, nQuery>>

\* a run that marks the document as failed when it recorded an error
DocumentsMarkedError(docs, d, errors) ==
    IF errors # << >> THEN [docs EXCEPT ![d] = ErrorRow(@, errors[1].msg)]
    ELSE docs

\* The documents table when a run ends.  index_document_chunks reads the row
\* and the chunk rows through the session (lines 132-142); in lines 111-342
\* it assigns to neither and never calls add, commit or rollback: the errors
\* of the run go to metrics.errors only (lines 249, 285, 310).
DocumentsAfterIndexRun(docs, d, errors) == docs

\* lines 289-342: one add of everything accumulated, then the report
IndexPersistOutcome(add_ok) ==
    /\ pc = "idx_persist"
    /\ \/ /\ add_ok
          /\ vstore' = IF idx.all # << >>
                       THEN add_embeddings_to_chroma(vstore, idx.doc_id, idx.all)
                       ELSE vstore
          /\ last' = IndexReport(idx.doc_id, idx.skip_existing, "returned",
                                 Len(idx.all), idx.total_chunks, idx)
       \/ /\ ~add_ok
          /\ idx.all # << >>
          /\ vstore' \in PartialAdds(vstore, idx.doc_id, idx.all)
          /\ last' = IndexReport(idx.doc_id, idx.skip_existing, "raised", 0,
                                 idx.total_chunks,
                                 [idx EXCEPT !.errors =
                                     Append(@, [msg |-> "Failed to persist embeddings",
                                                batch |-> 0])])
    /\ documents' = DocumentsAfterIndexRun(documents, idx.doc_id, last'.errors)
    /\ pc' = "idle"
    /\ idx' = NoIdx
    /\ UNCHANGED <<user_ids, call, eventloop, indexer, chunk_rows, issued, ing, current_batch_size,
                   chunks_cache, context_cache, history, nIndex, nQuery>>

\* the add succeeds or raises
IndexPersist == \E add_ok \in BOOLEAN : IndexPersistOutcome(add_ok)


\* ------------------------------------------------------ query.LRUCache
\* An OrderedDict is a sequence of [key, value] entries, oldest first.
LRUIndex(cache, key) ==
    IF \E i \in 1..Len(cache) : cache[i].key = key
    THEN CHOOSE i \in 1..Len(cache) : cache[i].key = key
    ELSE 0

LRURemove(cache, i) == SubSeq(cache, 1, i - 1) \o SubSeq(cache, i + 1, Len(cache))

\* a lookup that answers with the newest entry whatever the key
LRUGetNewest(cache, key) ==
    IF cache # << >>
    THEN [hit |-> TRUE, value |-> cache[Len(cache)].value, cache |-> cache]
    ELSE [hit |-> FALSE, value |-> "None", cache |-> cache]

\* a lookup that reserves a place for the key it did not find
LRUGetReserving(cache, key) ==
    LET i == LRUIndex(cache, key)
    IN IF i # 0
       THEN [hit |-> TRUE, value |-> cache[i].value,
             cache |-> Append(LRURemove(cache, i), cache[i])]
       ELSE [hit |-> FALSE, value |-> "None",
             cache |-> Append(cache, [key |-> key, value |-> "None"])]

\* get: the value (moved to the end) or None
LRUGet(cache, key) ==
    LET i == LRUIndex(cache, key)
    IN IF i # 0
       THEN [hit |-> TRUE, value |-> cache[i].value,
             cache |-> Append(LRURemove(cache, i), cache[i])]
       ELSE [hit |-> FALSE, value |-> "None", cache |-> cache]

\* a put that never evicts
LRUPutUnbounded(cache, maxsize, key, value) ==
    LET i == LRUIndex(cache, key)
        entry == [key |-> key, value |-> value]
    IN IF i # 0 THEN Append(LRURemove(cache, i), entry)
       ELSE Append(cache, entry)

\* a put that evicts the newest entry at capacity
LRUPutEvictNewest(cache, maxsize, key, value) ==
    LET i == LRUIndex(cache, key)
        entry == [key |-> key, value |-> value]
    IN IF i # 0 THEN Append(LRURemove(cache, i), entry)
       ELSE IF Len(cache) >= maxsize
            THEN Append(SubSeq(cache, 1, Len(cache) - 1), entry)
       ELSE Append(cache, entry)

\* put: move to the end, or evict the oldest at capacity; then assign
LRUPut(cache, maxsize, key, value) ==
    LET i == LRUIndex(cache, key)
        entry == [key |-> key, value |-> value]
    IN IF i # 0 THEN Append(LRURemove(cache, i), entry)
       ELSE IF Len(cache) >= maxsize THEN Append(Tail(cache), entry)
       ELSE Append(cache, entry)

LRUClear(cache) == << >>

\* ------------------------------------------------ query.extract_top_sentences
\* the sentence splitting loop (lines 64-74)
RECURSIVE SentencesFrom(_, _, _, _)
SentencesFrom(text, i, current_sentence, sentences) ==
    IF i > Len(text)
    THEN IF Strip(current_sentence) # << >>
         THEN Append(sentences, Strip(current_sentence))
         ELSE sentences
    ELSE LET cur == Append(current_sentence, text[i])
         IN IF text[i] \in {".", "!", "?"}
            THEN SentencesFrom(text, i + 1, << >>, Append(sentences, Strip(cur)))
            ELSE SentencesFrom(text, i + 1, cur, sentences)

\* the loop that takes sentences while they fit (lines 77-82)
RECURSIVE TakeSentences(_, _, _, _)
TakeSentences(sentences, i, result, max_chars) ==
    IF i > Len(sentences) THEN result
    ELSE IF Len(result) + Len(sentences[i]) + 1 <= max_chars
    THEN TakeSentences(sentences, i + 1, result \o sentences[i] \o <<SP>>, max_chars)
    ELSE result

extract_top_sentences(text, max_chars) ==
    IF Len(text) <= max_chars THEN text
    ELSE LET result == TakeSentences(SentencesFrom(text, 1, << >>, << >>), 1,
                                     << >>, max_chars)
         IN IF result # << >> THEN Strip(result) ELSE Slice(text, 0, max_chars)

\* ------------------------------------------------------- the query inputs
Queries == {"qa", "qlong"}

QueryText(query) ==
    IF query = "qa" THEN <<"a">> ELSE [i \in 1..LongQueryLen |-> "b"]

TopKs == {1, 3}
MaxContextChars == {100, 212, 370}

\* ----------------------------------------------- chroma_client.query_chroma
\* Stand-in for the cosine distance between the embedding of the query and
\* the embedding of a stored text: the number of characters of the text that
\* differ from the query's first character.
Distance(query, text) ==
    Cardinality({i \in 1..Len(text) : text[i] # QueryText(query)[1]})

\* position of x in a list ordered by ascending distance, after its equals
InsertNearest(sorted, x) ==
    LET p == Cardinality({i \in 1..Len(sorted) : sorted[i].distance <= x.distance})
    IN SubSeq(sorted, 1, p) \o <<x>> \o SubSeq(sorted, p + 1, Len(sorted))

RECURSIVE NearestFirst(_)
NearestFirst(hits) ==
    IF hits = << >> THEN << >>
    ELSE InsertNearest(NearestFirst(SubSeq(hits, 1, Len(hits) - 1)), hits[Len(hits)])

\* a query that returns every entry, nearest first, whatever n_results is
query_chroma_unlimited(store, query, n_results) ==
    NearestFirst([i \in 1..Len(store) |->
                    [id |-> store[i].id, doc_id |-> store[i].doc_id,
                     chunk_id |-> store[i].chunk_id,
                     page_number |-> store[i].page_number,
                     text |-> store[i].text,
                     distance |-> Distance(query, store[i].text)]])

\* collection.query: the n_results nearest entries, nearest first, equally
\* distant entries in insertion order
query_chroma(store, query, n_results) ==
    LET scored == [i \in 1..Len(store) |->
                     [id |-> store[i].id, doc_id |-> store[i].doc_id,
                      chunk_id |-> store[i].chunk_id,
                      page_number |-> store[i].page_number,
                      text |-> store[i].text,
                      distance |-> Distance(query, store[i].text)]]
    IN SubSeq(NearestFirst(scored), 1, Min(n_results, Len(store)))

\* ------------------------------------------- query.QueryRetriever
\* sha256 of f"{query}|{top_k}|{max_context_chars}": one key per triple
compute_query_hash(query, top_k, max_context_chars) ==
    <<query, top_k, max_context_chars>>

\* the chunk_data dictionaries built from the results (lines 168-192)
ChunkData(results) ==
    [i \in 1..Len(results) |->
        [chunk_id |-> results[i].id, doc_id |-> results[i].doc_id,
         chunk_id_num |-> results[i].chunk_id,
         page_number |-> results[i].page_number, text |-> results[i].text,
         similarity |-> 1 - results[i].distance,
         distance |-> results[i].distance]]

\* an unstable sort: an element goes before its equals
InsertBeforeEquals(sorted, x) ==
    LET p == Cardinality({i \in 1..Len(sorted) : sorted[i].similarity > x.similarity})
    IN SubSeq(sorted, 1, p) \o <<x>> \o SubSeq(sorted, p + 1, Len(sorted))

\* list.sort(key=similarity, reverse=True) is stable: an element goes after
\* every element whose similarity is greater or equal
InsertBySimilarity(sorted, x) ==
    LET p == Cardinality({i \in 1..Len(sorted) : sorted[i].similarity >= x.similarity})
    IN SubSeq(sorted, 1, p) \o <<x>> \o SubSeq(sorted, p + 1, Len(sorted))

RECURSIVE SortBySimilarity(_)
SortBySimilarity(chunks) ==
    IF chunks = << >> THEN << >>
    ELSE InsertBySimilarity(SortBySimilarity(SubSeq(chunks, 1, Len(chunks) - 1)),
                            chunks[Len(chunks)])

\* retrieve_chunks when embedder and vector store answer (lines 136-205)
retrieve_chunks(cache, store, query, top_k) ==
    LET cache_key == compute_query_hash(query, top_k, 0)
        cached == LRUGet(cache, cache_key)
        results == query_chroma(store, query, top_k)
        retrieved_chunks == SortBySimilarity(ChunkData(results))
    IN IF cached.hit
       THEN [hit |-> TRUE, chunks |-> cached.value, cache |-> cached.cache,
             looked |-> cached.cache, results |-> << >>]
       ELSE [hit |-> FALSE, chunks |-> retrieved_chunks,
             cache |-> LRUPut(cached.cache, CacheSize, cache_key, retrieved_chunks),
             looked |-> cached.cache, results |-> results]

Digits(n) == IF n < 10 THEN 1 ELSE 2

\* len(page_str)  (line 261)
PageStrLen(page) == IF page = NoPage THEN 0 ELSE PagePrefixLen + Digits(page)

\* len(source_header) for the source numbered n  (line 262)
SourceHeaderLen(n, chunk) ==
    SourceHeaderFixedLen + Digits(n) + UuidLen + Digits(chunk.chunk_id_num)
        + PageStrLen(chunk.page_number)

\* text[:available_chars].rsplit(' ', 1)[0]
RSplitHead(text) ==
    LET spaces == {i \in 1..Len(text) : text[i] = SP}
    IN IF spaces = {} THEN text ELSE SubSeq(text, 1, SetMax(spaces) - 1)

\* the text of a source, cut to the space available (lines 274-280)
FitText(text, available_chars) ==
    IF Len(text) > available_chars
    THEN LET truncated_text == extract_top_sentences(text, available_chars)
         IN IF Len(truncated_text) > available_chars
            THEN RSplitHead(Slice(text, 0, available_chars)) \o <<".", ".", ".">>
            ELSE truncated_text
    ELSE text

\* the loop over the retrieved chunks (lines 254-298); i counts from 1
RECURSIVE AssembleLoop(_, _, _, _)
AssembleLoop(chunks, i, acc, max_context_chars) ==
    IF i > Len(chunks) THEN acc
    ELSE LET chunk == chunks[i]
             header_len == SourceHeaderLen(i, chunk) + SourceFooterLen
             available_chars == max_context_chars - acc.current_length - header_len
             text == FitText(chunk.text, available_chars)
             new == [sources |-> Append(acc.sources,
                                    [n |-> i, doc_id |-> chunk.doc_id,
                                     chunk_id |-> chunk.chunk_id_num,
                                     page |-> chunk.page_number, text |-> text]),
                     citations |-> Append(acc.citations,
                                    [doc_id |-> chunk.doc_id,
                                     chunk_id |-> chunk.chunk_id_num,
                                     page |-> chunk.page_number,
                                     similarity |-> chunk.similarity]),
                     current_length |-> acc.current_length + header_len + Len(text)]
         IN IF available_chars <= 0 THEN acc
            ELSE IF new.current_length >= max_context_chars THEN new
            ELSE AssembleLoop(chunks, i + 1, new, max_context_chars)

\* The context string, kept as its parts: the header, the source blocks and
\* the question; empty marks the text of _format_empty_context.
FormatContext(query, sources) ==
    [empty |-> FALSE, sources |-> sources, query |-> query]

format_empty_context(query) == [empty |-> TRUE, sources |-> << >>, query |-> query]

RECURSIVE SourcesLen(_)
SourcesLen(sources) ==
    IF sources = << >> THEN 0
    ELSE LET b == Head(sources)
         IN SourceHeaderFixedLen + Digits(b.n) + UuidLen + Digits(b.chunk_id)
                + PageStrLen(b.page) + Len(b.text) + SourceFooterLen
                + SourcesLen(Tail(sources))

\* len(context)
ContextLen(context) ==
    IF context.empty
    THEN HeaderLen + EmptyNoticeLen + EmptyQuestionFrameLen + Len(QueryText(context.query))
    ELSE HeaderLen + SourcesLen(context.sources) + QuestionFrameLen
             + Len(QueryText(context.query))

\* the (context, citations) built from the retrieved chunks (lines 237-312)
BuildContext(chunks, query, max_context_chars) ==
    IF chunks = << >>
    THEN [context |-> format_empty_context(query), citations |-> << >>]
    ELSE LET acc == AssembleLoop(chunks, 1,
                                 [sources |-> << >>, citations |-> << >>,
                                  current_length |-> HeaderLen],
                                 max_context_chars)
         IN [context |-> FormatContext(query, acc.sources),
             citations |-> acc.citations]

\* external: whether the call reached the embedder and the vector store
QueryReport(op, key, outcome, hit, external, chunks, results, built) ==
    [op |-> op, key |-> key, outcome |-> outcome, hit |-> hit,
     external |-> external, chunks |-> chunks, results |-> results,
     context |-> built.context, citations |-> built.citations]

NoContext == [context |-> "None", citations |-> << >>]

QueryOutcomes == {"ok", "embed_failed", "query_failed"}

\* POST /query/retrieve -> retrieve_chunks (lines 136-205)
RetrieveChunks(query, top_k, outcome) ==
    /\ pc = "idle"
    /\ nQuery < MaxQueries
    /\ nQuery' = nQuery + 1
    /\ LET r == retrieve_chunks(chunks_cache, vstore, query, top_k)
           key == compute_query_hash(query, top_k, 0)
       IN IF r.hit \/ outcome = "ok"
          THEN /\ outcome = "ok"
               /\ chunks_cache' = r.cache
               /\ last' = QueryReport("retrieve", key, "returned", r.hit, ~r.hit,
                                      r.chunks, r.results, NoContext)
          ELSE /\ chunks_cache' = r.looked
               /\ last' = QueryReport("retrieve", key, "raised", FALSE, TRUE,
                                      << >>, << >>, NoContext)
    /\ UNCHANGED <<user_ids, call, eventloop, indexer, documents, chunk_rows, vstore, issued, pc, ing, idx,
                   current_batch_size, context_cache, history, nIndex>>

\* POST /query -> assemble_context (lines 226-315)
AssembleContext(query, top_k, max_context_chars, outcome) ==
    /\ pc = "idle"
    /\ nQuery < MaxQueries
    /\ nQuery' = nQuery + 1
    /\ LET key == compute_query_hash(query, top_k, max_context_chars)
           cached == LRUGet(context_cache, key)
           r == retrieve_chunks(chunks_cache, vstore, query, top_k)
           built == BuildContext(r.chunks, query, max_context_chars)
       IN IF cached.hit
          THEN /\ outcome = "ok"
               /\ context_cache' = cached.cache
               /\ chunks_cache' = chunks_cache
               /\ last' = QueryReport("assemble", key, "returned", TRUE, FALSE,
                                      << >>, << >>, cached.value)
               /\ history' = Append(history, [key |-> key, hit |-> TRUE,
                                              external |-> FALSE,
                                              result |-> cached.value])
          ELSE IF r.hit \/ outcome = "ok"
          THEN /\ outcome = "ok"
               /\ context_cache' = LRUPut(cached.cache, CacheSize, key, built)
               /\ chunks_cache' = r.cache
               /\ last' = QueryReport("assemble", key, "returned", FALSE, ~r.hit,
                                      r.chunks, r.results, built)
               /\ history' = Append(history, [key |-> key, hit |-> FALSE,
                                              external |-> ~r.hit,
                                              result |-> built])
          ELSE /\ context_cache' = cached.cache
               /\ chunks_cache' = r.looked
               /\ UNCHANGED history
               /\ last' = QueryReport("assemble", key, "raised", FALSE, TRUE,
                                      << >>, << >>, NoContext)
    /\ UNCHANGED <<user_ids, call, eventloop, indexer, documents, chunk_rows, vstore, issued, pc, ing, idx,
                   current_batch_size, nIndex>>

\* POST /query/clear-cache -> clear_cache (lines 328-332)
ClearCache ==
    /\ pc = "idle"
    /\ chunks_cache' = LRUClear(chunks_cache)
    /\ context_cache' = LRUClear(context_cache)
    /\ last' = [op |-> "clear_cache"]
    /\ UNCHANGED <<user_ids, call, eventloop, indexer, documents, chunk_rows, vstore, issued, pc, ing, idx,
                   current_batch_size, history, nIndex, nQuery>>

\* ----------------------------------------------- routes/query.py: POST /query
\* The filter that keeps every document's id, whoever owns it.
all_doc_ids(current_user) == {d \in Docs : Exists(d)}

\* lines 131-135: the ids of the documents whose user_id is the current user's
user_doc_ids(current_user) ==
    {d \in Docs : Exists(d) /\ user_ids[d] = current_user}

\* line 136: the citations whose doc_id is among the user's documents
FilterCitations(citations, doc_ids) ==
    SelectSeq(citations, LAMBDA c : c.doc_id \in doc_ids)

\* lines 171-180: a source repeats its citation; citations carry no distance
Sources(citations) ==
    [i \in 1..Len(citations) |->
        [doc_id |-> citations[i].doc_id, chunk_id |-> citations[i].chunk_id,
         page |-> citations[i].page, similarity |-> citations[i].similarity,
         distance |-> "None"]]

\* What the request did: the context given to llm_provider.generate ("None"
\* when the call was not reached), the citations assemble_context returned,
\* and the citations and sources of the response.
QueryResponse(current_user, key, outcome, llm_context, assembled, citations) ==
    [op |-> "query", user |-> current_user, key |-> key, outcome |-> outcome,
     llm_context |-> llm_context, assembled |-> assembled,
     citations |-> citations, sources |-> Sources(citations)]

\* POST /query (lines 88-239): assemble_context, the ownership filter on the
\* citations, the LLM call on the context as assembled, the response.  Any
\* exception is answered 400 or 500 (lines 226-238).
QueryRoute(current_user, query, top_k, max_context_chars, outcome, llm_ok) ==
    /\ pc = "idle"
    /\ nQuery < MaxQueries
    /\ nQuery' = nQuery + 1
    /\ LET key == compute_query_hash(query, top_k, max_context_chars)
           cached == LRUGet(context_cache, key)
           r == retrieve_chunks(chunks_cache, vstore, query, top_k)
           built == BuildContext(r.chunks, query, max_context_chars)
           result == IF cached.hit THEN cached.value ELSE built
           citations == FilterCitations(result.citations,
                                        user_doc_ids(current_user))
           response == IF llm_ok
                       THEN QueryResponse(current_user, key, "returned",
                                          result.context, result.citations,
                                          citations)
                       ELSE QueryResponse(current_user, key, "raised",
                                          result.context, result.citations,
                                          << >>)
       IN IF cached.hit
          THEN /\ outcome = "ok"
               /\ context_cache' = cached.cache
               /\ chunks_cache' = chunks_cache
               /\ last' = response
               /\ history' = Append(history, [key |-> key, hit |-> TRUE,
                                              external |-> FALSE,
                                              result |-> cached.value])
          ELSE IF r.hit \/ outcome = "ok"
          THEN /\ outcome = "ok"
               /\ context_cache' = LRUPut(cached.cache, CacheSize, key, built)
               /\ chunks_cache' = r.cache
               /\ last' = response
               /\ history' = Append(history, [key |-> key, hit |-> FALSE,
                                              external |-> ~r.hit,
                                              result |-> built])
          ELSE /\ llm_ok
               /\ context_cache' = cached.cache
               /\ chunks_cache' = r.looked
               /\ UNCHANGED history
               /\ last' = QueryResponse(current_user, key, "raised", "None",
                                        << >>, << >>)
    /\ UNCHANGED <<user_ids, call, eventloop, indexer, documents, chunk_rows, vstore, issued, pc, ing, idx,
                   current_batch_size, nIndex>>

\* ---------------------------------------- concurrent requests: event loop
\* Every route handler is an "async def" and runs as a task of the one event
\* loop thread; tasks change over only where a task awaits.  The bodies of
\* the lazy getters, of QueryRetriever's methods and of LRUCache.get / put
\* contain no await, so a task that enters one holds the thread until it
\* returns.  A task is modelled statement by statement; the scheduler may
\* pick another task only at the points in AwaitPoints.
Tasks == 1..MaxTasks
NoTask == 0

Singletons ==
    {"_chroma_client", "_embedding_models", "_query_retriever",
     "_embedding_indexer", "_llm_provider"}

CacheNames == {"chunks_cache", "context_cache"}
CacheKeys == {"k1", "k2", "k3"}
CacheValues == {"v1", "v2"}

IdleTask ==
    [pc |-> "ready", op |-> "none", target |-> "none", key |-> "none",
     value |-> "None", before |-> << >>, local |-> "none"]

\* the control points at which a task is suspended: between calls
AwaitPoints == {"ready"}

\* a scheduler that may preempt a task after any statement
YieldsEverywhere(point) == TRUE

\* the task gives up the thread at this control point
Yields(point) == point \in AwaitPoints

CanRun(t) == running \in {NoTask, t}

Scheduled(t, point) == IF Yields(point) THEN NoTask ELSE t

\* what the step of task t to control point p with locals l does to the tasks
TaskStep(t, p, l) ==
    /\ task' = [task EXCEPT ![t] = [@ EXCEPT !.pc = p, !.local = l]]
    /\ running' = Scheduled(t, p)

TaskReturn(t) ==
    /\ task' = [task EXCEPT ![t] = IdleTask]
    /\ running' = Scheduled(t, "ready")

\* a request reaches a call of a lazy getter
CallGetter(t, s) ==
    /\ CanRun(t)
    /\ task[t].pc = "ready"
    /\ nCalls < MaxCalls
    /\ nCalls' = nCalls + 1
    /\ task' = [task EXCEPT ![t] =
                   [IdleTask EXCEPT !.pc = "getter_check", !.op = "getter",
                                    !.target = s]]
    /\ running' = Scheduled(t, "getter_check")
    /\ last' = NoResult
    /\ UNCHANGED <<user_ids, call, documents, chunk_rows, vstore, issued, pc, ing, idx, indexer,
                   current_batch_size, chunks_cache, context_cache, history,
                   nIndex, nQuery, singletons, constructions>>

\* if _x is None:  /  if cache_key in _embedding_models:
GetterCheck(t) ==
    /\ CanRun(t)
    /\ task[t].pc = "getter_check"
    /\ IF singletons[task[t].target] = 0
       THEN TaskStep(t, "getter_construct", "none")
       ELSE TaskStep(t, "getter_return", "set")
    /\ UNCHANGED <<user_ids, call, documents, chunk_rows, vstore, issued, pc, ing, idx, indexer,
                   current_batch_size, chunks_cache, context_cache, last, history,
                   nIndex, nQuery, singletons, constructions, nCalls>>

\* the globals a constructor call assigns: EmbeddingIndexer.__init__ loads
\* the embedding model through get_embedding_model (indexing.py line 74)
Constructs(s) ==
    IF s = "_embedding_indexer" /\ singletons["_embedding_models"] = 0
    THEN {s, "_embedding_models"}
    ELSE {s}

\* _x = X(...): construct and assign the global
GetterConstruct(t) ==
    /\ CanRun(t)
    /\ task[t].pc = "getter_construct"
    /\ LET made == Constructs(task[t].target)
       IN /\ constructions' = [s \in Singletons |->
                                  IF s \in made THEN constructions[s] + 1
                                  ELSE constructions[s]]
          /\ singletons' = [s \in Singletons |->
                               IF s \in made THEN constructions[s] + 1
                               ELSE singletons[s]]
    /\ TaskStep(t, "getter_return", "made")
    /\ UNCHANGED <<user_ids, call, documents, chunk_rows, vstore, issued, pc, ing, idx, indexer,
                   current_batch_size, chunks_cache, context_cache, last, history,
                   nIndex, nQuery, nCalls>>

\* return _x
GetterReturn(t) ==
    /\ CanRun(t)
    /\ task[t].pc = "getter_return"
    /\ last' = [op |-> "getter", task |-> t, target |-> task[t].target,
                result |-> singletons[task[t].target]]
    /\ TaskReturn(t)
    /\ UNCHANGED <<user_ids, call, documents, chunk_rows, vstore, issued, pc, ing, idx, indexer,
                   current_batch_size, chunks_cache, context_cache, history,
                   nIndex, nQuery, singletons, constructions, nCalls>>

CacheOf(name) == IF name = "chunks_cache" THEN chunks_cache ELSE context_cache

SetCache(name, cache) ==
    /\ chunks_cache' = IF name = "chunks_cache" THEN cache ELSE chunks_cache
    /\ context_cache' = IF name = "context_cache" THEN cache ELSE context_cache

\* OrderedDict.move_to_end(key)
MoveToEnd(cache, key) ==
    LET i == LRUIndex(cache, key) IN Append(LRURemove(cache, i), cache[i])

\* OrderedDict.__setitem__: a present key keeps its place
SetItem(cache, key, value) ==
    LET i == LRUIndex(cache, key)
    IN IF i # 0 THEN [cache EXCEPT ![i].value = value]
       ELSE Append(cache, [key |-> key, value |-> value])

\* what a finished get or put reports: the cache when the call began, the
\* cache when it returned, and the value returned
CacheReport(t, result, cache) ==
    [op |-> task[t].op, task |-> t, target |-> task[t].target,
     key |-> task[t].key, value |-> task[t].value, before |-> task[t].before,
     after |-> cache, result |-> result]

\* a request reaches a call of get or put on one of the retriever's caches
CallCache(t, op, name, key, value) ==
    /\ CanRun(t)
    /\ task[t].pc = "ready"
    /\ nCalls < MaxCalls
    /\ nCalls' = nCalls + 1
    /\ LET p == IF op = "get" THEN "get_check" ELSE "put_check"
       IN /\ task' = [task EXCEPT ![t] =
                         [IdleTask EXCEPT !.pc = p, !.op = op, !.target = name,
                                          !.key = key,
                                          !.value = IF op = "put" THEN value
                                                    ELSE "None",
                                          !.before = CacheOf(name)]]
          /\ running' = Scheduled(t, p)
    /\ last' = NoResult
    /\ UNCHANGED <<user_ids, call, documents, chunk_rows, vstore, issued, pc, ing, idx, indexer,
                   current_batch_size, chunks_cache, context_cache, history,
                   nIndex, nQuery, singletons, constructions>>

\* get, line 29: if key in self.cache; line 32: return None
CacheGetCheck(t) ==
    /\ CanRun(t)
    /\ task[t].pc = "get_check"
    /\ IF LRUIndex(CacheOf(task[t].target), task[t].key) # 0
       THEN /\ TaskStep(t, "get_move", "found")
            /\ UNCHANGED last
       ELSE /\ last' = CacheReport(t, "None", CacheOf(task[t].target))
            /\ TaskReturn(t)
    /\ UNCHANGED <<user_ids, call, documents, chunk_rows, vstore, issued, pc, ing, idx, indexer,
                   current_batch_size, chunks_cache, context_cache, history,
                   nIndex, nQuery, singletons, constructions, nCalls>>

\* get, line 30: self.cache.move_to_end(key); KeyError if the key is gone
CacheGetMove(t) ==
    /\ CanRun(t)
    /\ task[t].pc = "get_move"
    /\ LET cache == CacheOf(task[t].target)
       IN IF LRUIndex(cache, task[t].key) # 0
          THEN /\ SetCache(task[t].target, MoveToEnd(cache, task[t].key))
               /\ TaskStep(t, "get_return", "found")
               /\ UNCHANGED last
          ELSE /\ last' = CacheReport(t, "KeyError", cache)
               /\ TaskReturn(t)
               /\ UNCHANGED <<chunks_cache, context_cache>>
    /\ UNCHANGED <<user_ids, call, documents, chunk_rows, vstore, issued, pc, ing, idx, indexer,
                   current_batch_size, history, nIndex, nQuery, singletons,
                   constructions, nCalls>>

\* get, line 31: return self.cache[key]
CacheGetReturn(t) ==
    /\ CanRun(t)
    /\ task[t].pc = "get_return"
    /\ LET cache == CacheOf(task[t].target)
           i == LRUIndex(cache, task[t].key)
       IN last' = CacheReport(t, IF i # 0 THEN cache[i].value ELSE "KeyError",
                              cache)
    /\ TaskReturn(t)
    /\ UNCHANGED <<user_ids, call, documents, chunk_rows, vstore, issued, pc, ing, idx, indexer,
                   current_batch_size, chunks_cache, context_cache, history,
                   nIndex, nQuery, singletons, constructions, nCalls>>

\* put, lines 36 and 38: which branch the call takes
CachePutCheck(t) ==
    /\ CanRun(t)
    /\ task[t].pc = "put_check"
    /\ LET cache == CacheOf(task[t].target)
       IN IF LRUIndex(cache, task[t].key) # 0
          THEN TaskStep(t, "put_make_room", "move")
          ELSE IF Len(cache) >= CacheSize
          THEN TaskStep(t, "put_make_room", "pop")
          ELSE TaskStep(t, "put_assign", "set")
    /\ UNCHANGED <<user_ids, call, documents, chunk_rows, vstore, issued, pc, ing, idx, indexer,
                   current_batch_size, chunks_cache, context_cache, last, history,
                   nIndex, nQuery, singletons, constructions, nCalls>>

\* put, line 37: move_to_end(key), or line 39: popitem(last=False); either
\* raises KeyError if the entry is no longer there
CachePutMakeRoom(t) ==
    /\ CanRun(t)
    /\ task[t].pc = "put_make_room"
    /\ LET cache == CacheOf(task[t].target)
           present == IF task[t].local = "move"
                      THEN LRUIndex(cache, task[t].key) # 0
                      ELSE cache # << >>
       IN IF present
          THEN /\ SetCache(task[t].target,
                           IF task[t].local = "move"
                           THEN MoveToEnd(cache, task[t].key)
                           ELSE Tail(cache))
               /\ TaskStep(t, "put_assign", task[t].local)
               /\ UNCHANGED last
          ELSE /\ last' = CacheReport(t, "KeyError", cache)
               /\ TaskReturn(t)
               /\ UNCHANGED <<chunks_cache, context_cache>>
    /\ UNCHANGED <<user_ids, call, documents, chunk_rows, vstore, issued, pc, ing, idx, indexer,
                   current_batch_size, history, nIndex, nQuery, singletons,
                   constructions, nCalls>>

\* put, line 40: self.cache[key] = value
CachePutAssign(t) ==
    /\ CanRun(t)
    /\ task[t].pc = "put_assign"
    /\ LET cache == SetItem(CacheOf(task[t].target), task[t].key, task[t].value)
       IN /\ SetCache(task[t].target, cache)
          /\ last' = CacheReport(t, "None", cache)
    /\ TaskReturn(t)
    /\ UNCHANGED <<user_ids, call, documents, chunk_rows, vstore, issued, pc, ing, idx, indexer,
                   current_batch_size, history, nIndex, nQuery, singletons,
                   constructions, nCalls>>

Outcomes == {"ok", "oom", "error"}
RetryOutcomes == {"none", "ok", "oom"}

\* ------------------------------------------------------------ specification
NoCall == [fn |-> "none"]

\* the service before its first request: empty tables, collection and
\* caches, no request running
ServiceInit ==
    /\ documents = [d \in Docs |-> NoDoc]
    /\ chunk_rows = [d \in Docs |-> << >>]
    /\ vstore = << >>
    /\ issued = {}
    /\ pc = "idle"
    /\ ing = NoIng
    /\ idx = NoIdx
    /\ chunks_cache = << >>
    /\ context_cache = << >>
    /\ last = NoResult
    /\ history = << >>
    /\ nIndex = 0
    /\ nQuery = 0
    /\ running = NoTask
    /\ task = [t \in Tasks |-> IdleTask]
    /\ singletons = [s \in Singletons |-> 0]
    /\ constructions = [s \in Singletons |-> 0]
    /\ nCalls = 0
    /\ user_ids = [d \in Docs |-> NoUser]

Init ==
    /\ ServiceInit
    /\ indexer = EmbeddingIndexer(initial_batch_size, min_batch_size, max_batch_size)
    /\ current_batch_size = indexer.initial_batch_size
    /\ call = NoCall

Next ==
    \/ \E file \in Files : IngestCreate(file)
    \/ IngestParse
    \/ \E ok \in BOOLEAN : IngestStore(ok)
    \/ \E ok \in BOOLEAN : IngestEmbed(ok)
    \/ \E ok \in BOOLEAN : IngestUpsert(ok)
    \/ IngestExcept
    \/ \E ok \in BOOLEAN : IngestCleanup(ok)
    \/ \E d \in Docs, chroma_ok \in BOOLEAN, commit_ok \in BOOLEAN :
          DeleteDocument(d, chroma_ok, commit_ok)
    \/ \E d \in Docs, skip \in BOOLEAN : IndexStart(d, skip)
    \/ \E first \in Outcomes, retry \in RetryOutcomes : IndexBatch(first, retry)
    \/ IndexPersist

Spec == Init /\ [][Next]_vars

\* The query service over a store that is filled and emptied by requests
\* that meet no fault.
QueryFiles == {"five", "ten"}

QueryNext ==
    \/ \E file \in QueryFiles : IngestCreate(file)
    \/ IngestParse
    \/ IngestStore(TRUE)
    \/ IngestEmbed(TRUE)
    \/ IngestUpsert(TRUE)
    \/ \E d \in Docs : DeleteDocument(d, TRUE, TRUE)
    \/ \E query \in Queries, top_k \in TopKs, outcome \in QueryOutcomes :
          RetrieveChunks(query, top_k, outcome)
    \/ \E query \in Queries, top_k \in TopKs, max_context_chars \in MaxContextChars,
          outcome \in QueryOutcomes :
          AssembleContext(query, top_k, max_context_chars, outcome)
    \/ ClearCache

QuerySpec == Init /\ [][QueryNext]_vars

\* Uploads under each owner, deletions, and queries by each user.
OwnerFiles == {"ten"}

OwnerNext ==
    \/ \E file \in OwnerFiles, owner \in OwnerInputs :
          UploadDocument(file, FnTxt, max_size - 1, owner)
    \/ IngestParse
    \/ IngestStore(TRUE)
    \/ IngestEmbed(TRUE)
    \/ IngestUpsert(TRUE)
    \/ \E d \in Docs, chroma_ok \in BOOLEAN : DeleteDocument(d, chroma_ok, TRUE)
    \/ \E current_user \in Users, top_k \in TopKs,
          max_context_chars \in MaxContextChars, outcome \in QueryOutcomes,
          llm_ok \in BOOLEAN :
          QueryRoute(current_user, "qlong", top_k, max_context_chars, outcome, llm_ok)

OwnerSpec == Init /\ [][OwnerNext]_vars

\* Ingest, index and delete against a vector store whose operations all
\* succeed; parsing, the commit of the chunk rows and the embedder may fail.
WorkingStoreFiles == {"unparsable", "ten"}

WorkingStoreNext ==
    \/ \E file \in WorkingStoreFiles : IngestCreate(file)
    \/ IngestParse
    \/ \E ok \in BOOLEAN : IngestStore(ok)
    \/ \E ok \in BOOLEAN : IngestEmbed(ok)
    \/ IngestUpsert(TRUE)
    \/ IngestExcept
    \/ IngestCleanup(TRUE)
    \/ \E d \in Docs, commit_ok \in BOOLEAN : DeleteDocument(d, TRUE, commit_ok)
    \/ \E d \in Docs, skip \in BOOLEAN : IndexStartLookup(d, skip, TRUE)
    \/ \E first \in Outcomes, retry \in RetryOutcomes : IndexBatch(first, retry)
    \/ IndexPersistOutcome(TRUE)

WorkingStoreSpec == Init /\ [][WorkingStoreNext]_vars

\* The indexer under each way of constructing it: with the defaults, with an
\* initial batch size above max_batch_size, and with an initial batch size
\* equal to min_batch_size.  Documents are ingested without faults.
Indexers ==
    {EmbeddingIndexer(initial_batch_size, min_batch_size, max_batch_size),
     EmbeddingIndexer(max_batch_size + 1, min_batch_size, max_batch_size),
     EmbeddingIndexer(min_batch_size, min_batch_size, max_batch_size)}

IndexerFiles == {"ten"}

IndexerInit ==
    /\ ServiceInit
    /\ indexer \in Indexers
    /\ current_batch_size = indexer.initial_batch_size
    /\ call = NoCall

IndexerNext ==
    \/ \E file \in IndexerFiles : IngestCreate(file)
    \/ IngestParse
    \/ IngestStore(TRUE)
    \/ IngestEmbed(TRUE)
    \/ IngestUpsert(TRUE)
    \/ \E d \in Docs, skip \in BOOLEAN : IndexStart(d, skip)
    \/ \E first \in Outcomes, retry \in RetryOutcomes : IndexBatch(first, retry)
    \/ IndexPersist

IndexerSpec == IndexerInit /\ [][IndexerNext]_vars

\* The upload route under every file name and size, without faults.
UploadFiles == {"five", "ten"}

UploadNext ==
    \/ \E file \in UploadFiles, filename \in Filenames, file_size \in UploadSizes :
          UploadDocument(file, filename, file_size, NoOwner)
    \/ IngestParse
    \/ IngestStore(TRUE)
    \/ IngestEmbed(TRUE)
    \/ IngestUpsert(TRUE)
    \/ \E d \in Docs : DeleteDocument(d, TRUE, TRUE)

UploadSpec == Init /\ [][UploadNext]_vars

\* ---- pure functions on their own
\* every string of at most n characters of the alphabet
Strings(alphabet, n) == UNION {[1..k -> alphabet] : k \in 0..n}

\* normalize_text applied to every short text over letters, blanks, line
\* ends, a form feed and a zero-width space, and applied again to its result
NormalizeAlphabet == {"a", "B", SP, NL, CR, FF, ZWSP}

NormalizeInit ==
    /\ ServiceInit
    /\ indexer = EmbeddingIndexer(initial_batch_size, min_batch_size, max_batch_size)
    /\ current_batch_size = indexer.initial_batch_size
    /\ call \in {[fn |-> "normalize_text", text |-> x, applied |-> 0,
                  result |-> x, previous |-> x] :
                 x \in Strings(NormalizeAlphabet, MaxTextLen)}

NormalizeText ==
    /\ call.fn = "normalize_text"
    /\ call.applied < 2
    /\ call' = [call EXCEPT !.applied = @ + 1,
                            !.previous = call.result,
                            !.result = normalize_text(call.result)]
    /\ UNCHANGED <<user_ids, eventloop, indexer, documents, chunk_rows, vstore, issued, pc, ing,
                   idx, current_batch_size, chunks_cache, context_cache, last,
                   history, nIndex, nQuery>>

NormalizeNext == NormalizeText

NormalizeSpec == NormalizeInit /\ [][NormalizeNext]_vars

\* chunk_text applied to every short text of letters, blanks and full stops
\* under the sizes the ingest model uses, and under sizes whose overlap is
\* larger than the minimum chunk size, as it is with the defaults (160, 100)
ChunkAlphabet == {"a", SP, "."}

ChunkParams ==
    {[chunk_size |-> ChunkSize, chunk_overlap |-> ChunkOverlap,
      min_chunk_size |-> MinChunkSize, max_chunk_size |-> MaxChunkSize],
     [chunk_size |-> ChunkSize, chunk_overlap |-> ChunkOverlap + 1,
      min_chunk_size |-> MinChunkSize - 1, max_chunk_size |-> MaxChunkSize]}

ChunkInit ==
    /\ ServiceInit
    /\ indexer = EmbeddingIndexer(initial_batch_size, min_batch_size, max_batch_size)
    /\ current_batch_size = indexer.initial_batch_size
    /\ call \in {[fn |-> "chunk_text", text |-> x, chunk_size |-> p.chunk_size,
                  chunk_overlap |-> p.chunk_overlap,
                  min_chunk_size |-> p.min_chunk_size,
                  max_chunk_size |-> p.max_chunk_size, applied |-> 0,
                  returned |-> FALSE, chunks |-> << >>] :
                 x \in Strings(ChunkAlphabet, MaxChunkTextLen), p \in ChunkParams}

ChunkText ==
    /\ call.fn = "chunk_text"
    /\ call.applied = 0
    /\ LET run == ChunkRun(call.text, call.chunk_size, call.chunk_overlap,
                           call.min_chunk_size, call.max_chunk_size)
       IN call' = [call EXCEPT !.applied = 1, !.returned = run.done,
                               !.chunks = run.chunks]
    /\ UNCHANGED <<user_ids, eventloop, indexer, documents, chunk_rows, vstore, issued, pc, ing,
                   idx, current_batch_size, chunks_cache, context_cache, last,
                   history, nIndex, nQuery>>

ChunkNext == ChunkText

ChunkSpec == ChunkInit /\ [][ChunkNext]_vars

\* chunk_text executed one loop iteration at a time on the same texts and
\* sizes. The chunk list is kept as the set of (start_char, end_char) ranges
\* emitted so far, with a flag telling that a range was emitted a second time.
\* At most MaxChunkIter iterations of a call are explored; a call that returns
\* makes at most one iteration for each start position, of which there are
\* fewer than MaxChunkIter.
ChunkLoopInit ==
    /\ ServiceInit
    /\ indexer = EmbeddingIndexer(initial_batch_size, min_batch_size, max_batch_size)
    /\ current_batch_size = indexer.initial_batch_size
    /\ call \in {[fn |-> "chunk_text", text |-> x, chunk_size |-> p.chunk_size,
                  chunk_overlap |-> p.chunk_overlap,
                  min_chunk_size |-> p.min_chunk_size,
                  max_chunk_size |-> p.max_chunk_size, at |-> "entry",
                  start |-> 0, iterations |-> 0, emitted |-> {},
                  twice |-> FALSE] :
                 x \in Strings(ChunkAlphabet, MaxChunkTextLen), p \in ChunkParams}

\* chunk_text up to the while loop: the empty-text return and the
\* "Validate parameters" block
ChunkTextEnter ==
    /\ call.fn = "chunk_text"
    /\ call.at = "entry"
    /\ IF call.text = << >> \/ Strip(call.text) = << >>
       THEN call' = [call EXCEPT !.at = "returned"]
       ELSE call' = [call EXCEPT
                       !.chunk_overlap = EffectiveOverlap(call.chunk_size,
                                                          call.chunk_overlap),
                       !.chunk_size = EffectiveChunkSize(call.chunk_size,
                                                         call.min_chunk_size,
                                                         call.max_chunk_size),
                       !.at = "while"]
    /\ UNCHANGED <<user_ids, eventloop, indexer, documents, chunk_rows, vstore, issued, pc, ing,
                   idx, current_batch_size, chunks_cache, context_cache, last,
                   history, nIndex, nQuery>>

\* one test of the while condition and one execution of the loop body
ChunkTextIterate ==
    /\ call.fn = "chunk_text"
    /\ call.at = "while"
    /\ call.iterations < MaxChunkIter
    /\ IF ~(call.start < Len(call.text))
       THEN call' = [call EXCEPT !.at = "returned"]
       ELSE LET st == ChunkStep(call.text, call.start, call.chunk_size,
                                call.min_chunk_size)
                range == <<call.start, st.end>>
                appended == st.content # << >>
            IN call' = [call EXCEPT
                          !.iterations = @ + 1,
                          !.emitted = IF appended THEN @ \cup {range} ELSE @,
                          !.twice = @ \/ (appended /\ range \in call.emitted),
                          !.at = IF st.end >= Len(call.text)
                                 THEN "returned" ELSE "while",
                          !.start = IF st.end >= Len(call.text) THEN @
                                    ELSE Max(0, st.end - call.chunk_overlap)]
    /\ UNCHANGED <<user_ids, eventloop, indexer, documents, chunk_rows, vstore, issued, pc, ing,
                   idx, current_batch_size, chunks_cache, context_cache, last,
                   history, nIndex, nQuery>>

ChunkLoopNext ==
    \/ ChunkTextEnter
    \/ ChunkTextIterate

ChunkLoopSpec == ChunkLoopInit /\ [][ChunkLoopNext]_vars

\* One LRUCache used by one caller at a time. Beside the cache the state
\* records, for each key, the value of its most recent put (lastput), the
\* number of the call that last put it (putat) and that last accessed it by a
\* put or a successful get (accessed), and the keys that an eviction or a
\* clear has removed since their last put (gone).
CacheKeySet(cache) == {cache[i].key : i \in 1..Len(cache)}

CacheSizes == {1, CacheSize}

\* LRUCache.__init__
LruInit ==
    /\ ServiceInit
    /\ indexer = EmbeddingIndexer(initial_batch_size, min_batch_size, max_batch_size)
    /\ current_batch_size = indexer.initial_batch_size
    /\ call \in {[fn |-> "LRUCache", maxsize |-> m, cache |-> << >>, op |-> "init",
                  key |-> "None", result |-> "None", nOps |-> 0,
                  lastput |-> [k \in CacheKeys |-> "None"],
                  putat |-> [k \in CacheKeys |-> 0],
                  accessed |-> [k \in CacheKeys |-> 0],
                  gone |-> {}] : m \in CacheSizes}

\* LRUCache.get
LruGet(key) ==
    /\ call.fn = "LRUCache"
    /\ call.nOps < MaxCacheOps
    /\ LET r == LRUGet(call.cache, key)
       IN call' = [call EXCEPT
                     !.cache = r.cache, !.op = "get", !.key = key,
                     !.result = r.value, !.nOps = @ + 1,
                     !.accessed = IF r.hit THEN [@ EXCEPT ![key] = call.nOps + 1]
                                  ELSE @]
    /\ UNCHANGED <<user_ids, eventloop, indexer, documents, chunk_rows, vstore, issued, pc, ing,
                   idx, current_batch_size, chunks_cache, context_cache, last,
                   history, nIndex, nQuery>>

\* LRUCache.put
LruPut(key, value) ==
    /\ call.fn = "LRUCache"
    /\ call.nOps < MaxCacheOps
    /\ LET cache == LRUPut(call.cache, call.maxsize, key, value)
       IN call' = [call EXCEPT
                     !.cache = cache, !.op = "put", !.key = key,
                     !.result = "None", !.nOps = @ + 1,
                     !.lastput = [@ EXCEPT ![key] = value],
                     !.putat = [@ EXCEPT ![key] = call.nOps + 1],
                     !.accessed = [@ EXCEPT ![key] = call.nOps + 1],
                     !.gone = (@ \ {key})
                                \cup (CacheKeySet(call.cache) \ CacheKeySet(cache))]
    /\ UNCHANGED <<user_ids, eventloop, indexer, documents, chunk_rows, vstore, issued, pc, ing,
                   idx, current_batch_size, chunks_cache, context_cache, last,
                   history, nIndex, nQuery>>

\* LRUCache.clear
LruClear ==
    /\ call.fn = "LRUCache"
    /\ call.nOps < MaxCacheOps
    /\ call' = [call EXCEPT
                  !.cache = LRUClear(call.cache), !.op = "clear", !.key = "None",
                  !.result = "None", !.nOps = @ + 1,
                  !.gone = @ \cup CacheKeySet(call.cache)]
    /\ UNCHANGED <<user_ids, eventloop, indexer, documents, chunk_rows, vstore, issued, pc, ing,
                   idx, current_batch_size, chunks_cache, context_cache, last,
                   history, nIndex, nQuery>>

LruNext ==
    \/ \E key \in CacheKeys : LruGet(key)
    \/ \E key \in CacheKeys, value \in CacheValues : LruPut(key, value)
    \/ LruClear

LruSpec == LruInit /\ [][LruNext]_vars

\* Concurrent requests using the lazy getters and the retriever's caches.
ConcurrentNext ==
    \/ \E t \in Tasks, s \in Singletons : CallGetter(t, s)
    \/ \E t \in Tasks : GetterCheck(t)
    \/ \E t \in Tasks : GetterConstruct(t)
    \/ \E t \in Tasks : GetterReturn(t)
    \/ \E t \in Tasks, op \in {"get", "put"}, name \in CacheNames,
          key \in CacheKeys, value \in CacheValues :
          CallCache(t, op, name, key, value)
    \/ \E t \in Tasks : CacheGetCheck(t)
    \/ \E t \in Tasks : CacheGetMove(t)
    \/ \E t \in Tasks : CacheGetReturn(t)
    \/ \E t \in Tasks : CachePutCheck(t)
    \/ \E t \in Tasks : CachePutMakeRoom(t)
    \/ \E t \in Tasks : CachePutAssign(t)

ConcurrentSpec == Init /\ [][ConcurrentNext]_vars

\* ------------------------------------------------------------------ claims
IndexReturned == last.op = "index" /\ last.outcome = "returned"

\* a batch met OutOfMemory above the minimum batch size and its retry at the
\* halved size succeeded
OomRetrySucceeded(log) ==
    \E i \in 1..Len(log) : log[i].first = "oom" /\ log[i].retry = "ok"

\* every call of the embedder succeeded, at the first attempt or at the retry
AllEmbedded(log) == \A i \in 1..Len(log) : log[i].embedded

\* C1: when a batch meets OutOfMemory above the minimum batch size and the
\* retry at the halved size succeeds (and no batch fails), the run returns
\* with every selected chunk embedded and upserted, and chunks_indexed is the
\* number of selected chunks.
C1_NoChunkLostAfterOomRetry ==
    (IndexReturned /\ AllEmbedded(last.log) /\ OomRetrySucceeded(last.log))
        => /\ last.chunks_indexed = Len(last.selected)
           /\ last.upserted = last.selected
           /\ \A i \in 1..Len(last.selected) :
                 CompositeId(last.doc_id, last.selected[i].chunk_id) \in StoreIds(vstore)

ExpectedIds(d) == {CompositeId(d, i) : i \in 0..(documents[d].total_chunks - 1)}

NoDuplicateIds(store) ==
    \A i \in 1..Len(store), j \in 1..Len(store) : store[i].id = store[j].id => i = j

\* C2: after ingest_document succeeds for D, or index_document_chunks returns
\* for D with an empty error list, the vector-store ids of D are exactly
\* D_0 .. D_(total_chunks-1), and no id occurs twice.
C2_IndexIdentity ==
    ((last.op = "ingest" /\ last.outcome = "ok")
        \/ (IndexReturned /\ last.errors = << >>))
        => /\ IdsOfDoc(vstore, last.doc_id) = ExpectedIds(last.doc_id)
           /\ NoDuplicateIds(vstore)

\* C3: a run with skip_existing=true in which the lookup of existing ids
\* and every embedding succeed embeds and upserts exactly the chunks whose
\* composite id was not in the vector store; with none missing it reports
\* chunks_indexed = 0 and upserts nothing.
C3_SkipExistingExact ==
    (IndexReturned /\ last.skip_existing /\ last.lookup /\ AllEmbedded(last.log))
        => /\ last.upserted = last.missing
           /\ last.chunks_indexed = Len(last.missing)

IngestRaised == last.op = "ingest" /\ last.outcome = "raised"

C5_IndexedHasContent ==
    \A d \in Docs :
        documents[d].status = "indexed"
            => /\ documents[d].total_chunks > 0
               /\ documents[d].total_characters > 0
               /\ documents[d].total_chunks = Len(chunk_rows[d])

C5_Witness ==
    \E d \in Docs : documents[d].status = "indexed" /\ Len(chunk_rows[d]) = 16

\* C6: when delete_document reports success for D, the document row, every
\* chunk row of D and every vector-store entry of D are gone.
C6_DeleteIsComplete ==
    (last.op = "delete" /\ last.outcome = "success")
        => /\ ~Exists(last.doc_id)
           /\ chunk_rows[last.doc_id] = << >>
           /\ IdsOfDoc(vstore, last.doc_id) = {}


AssembleReturned == last.op = "assemble" /\ last.outcome = "returned"

RetrieveReturned == last.op = "retrieve" /\ last.outcome = "returned"

InChunkStore(d, chunk_id) ==
    \E k \in 1..Len(chunk_rows[d]) : chunk_rows[d][k].chunk_id = chunk_id

\* C7: every citation returned by assemble_context references a
\* (document_id, chunk_index) present in the chunk store when the call
\* returns, and no chunk returned by retrieve_chunks references a document
\* that has been deleted.
C7_CitationsSound ==
    /\ (AssembleReturned
            => \A i \in 1..Len(last.citations) :
                  InChunkStore(last.citations[i].doc_id, last.citations[i].chunk_id))
    /\ (RetrieveReturned
            => \A i \in 1..Len(last.chunks) : Exists(last.chunks[i].doc_id))

\* C8: for every query, top_k and max_context_chars, the context returned
\* by assemble_context has at most max_context_chars + 300 characters.
C8_FixedOverhead ==
    AssembleReturned => ContextLen(last.context) <= last.key[3] + 300

\* C9 as stated: any two assemble_context calls with the same (query, top_k,
\* max_context_chars) return the same context and the same citations.
C9_RepeatedCallsIdentical ==
    \A i \in 1..Len(history), j \in 1..Len(history) :
        history[i].key = history[j].key => history[i].result = history[j].result

\* C9: a context-cache hit returns, without calling the embedder or the
\* vector store, exactly the context and citations that the previous call
\* with the same (query, top_k, max_context_chars) returned.
C9_CacheHitReturnsStored ==
    \A j \in 1..Len(history) :
        history[j].hit
            => /\ ~history[j].external
               /\ \E i \in 1..(j - 1) :
                     /\ history[i].key = history[j].key
                     /\ history[i].result = history[j].result
                     /\ \A k \in (i + 1)..(j - 1) : history[k].key # history[j].key

\* a hit that returns sources
C9_Witness ==
    \E j \in 1..Len(history) :
        history[j].hit /\ history[j].result.citations # << >>

\* position of a composite id in what the vector store returned
ResultPos(results, id) == CHOOSE k \in 1..Len(results) : results[k].id = id

\* C10: retrieve_chunks returns its results with similarity non-increasing,
\* and hits of equal similarity in the order in which the vector store
\* returned them.
C10_RankingOrder ==
    (RetrieveReturned \/ AssembleReturned)
        => /\ \A i \in 1..Len(last.chunks), j \in 1..Len(last.chunks) :
                 i < j => last.chunks[i].similarity >= last.chunks[j].similarity
           /\ (last.external
                 => /\ Len(last.chunks) = Len(last.results)
                    /\ \A i \in 1..Len(last.chunks), j \in 1..Len(last.chunks) :
                          (i < j /\ last.chunks[i].similarity = last.chunks[j].similarity)
                              => ResultPos(last.results, last.chunks[i].chunk_id)
                                    < ResultPos(last.results, last.chunks[j].chunk_id))

\* three hits, two of them equally similar
C10_Witness ==
    /\ RetrieveReturned
    /\ ~last.hit
    /\ Len(last.chunks) = 3
    /\ \E i \in 1..2 : last.chunks[i].similarity = last.chunks[i + 1].similarity
    /\ \E i \in 1..2 : last.chunks[i].similarity > last.chunks[i + 1].similarity

\* the errors ingest_document can raise before the chunk rows are committed
PreCommitErrors ==
    {"Failed to parse", "No chunks created from document", "commit failed"}

\* the run is at a point where the commit of the chunk rows and counters
\* has not happened: parsing, about to commit, or in the except block after
\* a failure of one of these
BeforeChunkCommit ==
    \/ pc \in {"ing_parse", "ing_store"}
    \/ pc \in {"ing_except", "ing_cleanup"} /\ ing.error \in PreCommitErrors

\* C11: at every point of an ingest_document run before the chunk rows and
\* counters are committed (a run cancelled there stays at such a point), the
\* committed status of the document is processing or error and the vector
\* store holds no entry with its document id.
C11_NothingBeforeCommit ==
    BeforeChunkCommit =>
        /\ documents[ing.doc_id].status \in {"processing", "error"}
        /\ IdsOfDoc(vstore, ing.doc_id) = {}

\* a second upload fails at the commit of its chunk rows and is in the
\* except block, while the store holds the entries of an earlier document
C11_Witness ==
    /\ pc = "ing_cleanup"
    /\ ing.error = "commit failed"
    /\ documents[ing.doc_id].status = "error"
    /\ vstore # << >>

\* C12: for every EmbeddingIndexer, from its construction on and throughout
\* every index_document_chunks run, min_batch_size <= current_batch_size
\* <= max_batch_size.
C12_BatchSizeWithinBounds ==
    /\ indexer.min_batch_size <= current_batch_size
    /\ current_batch_size <= indexer.max_batch_size

\* C13: within one index_document_chunks run current_batch_size never
\* increases: the run begins by setting it to initial_batch_size, and every
\* later change is a halving, floored at min_batch_size, in a batch whose
\* first embedding call raised OutOfMemory.
C13_BatchSizeNeverIncreases ==
    [][/\ (pc = "idle" /\ pc' = "idx_batch")
            => current_batch_size' = indexer.initial_batch_size
       /\ (pc = "idx_batch" /\ current_batch_size' # current_batch_size)
            => /\ current_batch_size' < current_batch_size
               /\ current_batch_size' =
                      Max(indexer.min_batch_size, current_batch_size \div 2)
               /\ idx'.log[Len(idx'.log)].first = "oom"]_vars

\* a run of an indexer with the default sizes that has halved twice and
\* stands at min_batch_size
C13_Witness ==
    /\ pc \in {"idx_batch", "idx_persist"}
    /\ indexer.initial_batch_size = initial_batch_size
    /\ Len(idx.log) = 2
    /\ current_batch_size = indexer.min_batch_size

\* the batch met OutOfMemory while current_batch_size equalled min_batch_size
OomAtMinimum(entry) ==
    entry.first = "oom" /\ entry.size = indexer.min_batch_size

\* C14: when the embedder raises OutOfMemory while current_batch_size
\* already equals min_batch_size, the error is recorded in the report and
\* the run stops: no later batch of that run is embedded.
C14_OomAtMinStopsRun ==
    last.op = "index" =>
        \A i \in 1..Len(last.log) :
            OomAtMinimum(last.log[i]) =>
                /\ \E k \in 1..Len(last.errors) :
                       last.errors[k].msg = "OOM at minimum batch size"
                /\ \A j \in (i + 1)..Len(last.log) : ~last.log[j].embedded

\* C15: the chunks and context caches are accessed under mutual exclusion:
\* in every interleaving of concurrent requests each get and put takes
\* effect atomically (its result and the cache it leaves are those of the
\* whole call applied to the cache it found), the caches never hold more
\* than maxsize entries, and a completed put is in the cache.
C15_CacheCallsAtomic ==
    /\ Len(chunks_cache) <= CacheSize
    /\ Len(context_cache) <= CacheSize
    /\ last.op = "get" =>
          /\ last.after = LRUGet(last.before, last.key).cache
          /\ last.result = LRUGet(last.before, last.key).value
    /\ last.op = "put" =>
          /\ last.result = "None"
          /\ last.after = LRUPut(last.before, CacheSize, last.key, last.value)
          /\ last.after[Len(last.after)] = [key |-> last.key, value |-> last.value]

\* a put into a full cache has completed while another task is between calls,
\* and has evicted the oldest entry
C15_Witness ==
    /\ last.op = "put"
    /\ Len(last.before) = CacheSize
    /\ LRUIndex(last.before, last.key) = 0
    /\ last.task = 2
    /\ nCalls = MaxCalls

\* C16: each process-wide singleton is constructed at most once, also when
\* several requests make the first use concurrently, and every caller of a
\* getter is handed that one instance.
C16_SingletonsConstructedOnce ==
    /\ \A s \in Singletons : constructions[s] <= 1
    /\ \A s \in Singletons : singletons[s] = constructions[s]
    /\ last.op = "getter" => last.result = 1

\* two different tasks have each been handed the embedding indexer
C16_Witness ==
    /\ last.op = "getter"
    /\ last.target = "_embedding_indexer"
    /\ last.task = 2
    /\ nCalls >= 2
    /\ constructions["_embedding_indexer"] = 1
    /\ constructions["_embedding_models"] = 1

\* the step is a retrieve_chunks or assemble_context call that raised
QueryCallRaised ==
    /\ nQuery' = nQuery + 1
    /\ last'.op \in {"retrieve", "assemble"}
    /\ last'.outcome = "raised"

\* C17: a cache entry is written only after the full result has been
\* computed: a retrieve_chunks or assemble_context call in which the query
\* embedding or the vector-store query raises modifies neither the chunks
\* cache nor the context cache.
C17_FailedCallLeavesCaches ==
    [][QueryCallRaised =>
          /\ chunks_cache' = chunks_cache
          /\ context_cache' = context_cache]_vars

\* an assemble_context call has raised while both caches held entries
C17_Witness ==
    /\ last.op = "assemble"
    /\ last.outcome = "raised"
    /\ chunks_cache # << >>
    /\ context_cache # << >>

\* the extension of a file name as the claim reads it: what follows the last
\* dot, in lower case; none if there is no dot
Extension(filename) ==
    IF HasDot(filename) THEN Lower(LastPart(filename)) ELSE << >>

ClaimedExtensions ==
    {<<"p", "d", "f">>, <<"d", "o", "c", "x">>, <<"d", "o", "c">>,
     <<"t", "x", "t">>, <<"h", "t", "m", "l">>, <<"h", "t", "m">>}

\* 50 MiB
ClaimedMaxSize == 50 * 1024 * 1024

\* C18: an upload whose file name extension is not one of pdf, docx, doc,
\* txt, html, htm, or whose content is larger than 50 MiB, is rejected (no
\* ingest_document run ever works on such an upload), and a rejected upload
\* creates no document row, no chunk rows and no vector-store entries.
C18_RejectedUploadStoresNothing ==
    /\ [](ing # NoIng =>
            /\ Extension(ing.filename) \in ClaimedExtensions
            /\ ing.file_size <= ClaimedMaxSize)
    /\ [][(last'.op = "upload" /\ last'.outcome = "rejected") =>
            /\ documents' = documents
            /\ chunk_rows' = chunk_rows
            /\ vstore' = vstore]_vars

\* an upload has been rejected for its size while the stores hold an
\* earlier document
C18_Witness ==
    /\ last.op = "upload"
    /\ last.outcome = "rejected"
    /\ last.status_code = 413
    /\ vstore # << >>

\* C19: normalize_text is idempotent: for every input string x,
\* normalize_text(normalize_text(x)) = normalize_text(x).
C19_NormalizeIdempotent ==
    (call.fn = "normalize_text" /\ call.applied = 2) => call.result = call.previous

\* C20: every chunk returned by chunk_text, except possibly the last, has
\* min_chunk_size <= len(chunk.text) <= max_chunk_size.
C20_ChunkSizesWithinBounds ==
    (call.fn = "chunk_text" /\ call.applied = 1 /\ call.returned) =>
        \A i \in 1..(Len(call.chunks) - 1) :
            /\ call.min_chunk_size <= Len(call.chunks[i].text)
            /\ Len(call.chunks[i].text) <= call.max_chunk_size

\* C21: for every list returned by chunk_text on a text of length N, the
\* chunk_id values are 0, 1, ..., n-1 in list order, each chunk has
\* 0 <= start_char < end_char <= N, and consecutive chunks satisfy
\* chunks[i+1].start_char >= chunks[i].end_char - overlap and
\* chunks[i+1].start_char <= chunks[i].end_char.
C21_ChunkOffsetsOrdered ==
    (call.fn = "chunk_text" /\ call.applied = 1 /\ call.returned) =>
        /\ \A i \in 1..Len(call.chunks) :
              /\ call.chunks[i].chunk_id = i - 1
              /\ 0 <= call.chunks[i].start_char
              /\ call.chunks[i].start_char < call.chunks[i].end_char
              /\ call.chunks[i].end_char <= Len(call.text)
        /\ \A i \in 1..(Len(call.chunks) - 1) :
              /\ call.chunks[i + 1].start_char
                    >= call.chunks[i].end_char - call.chunk_overlap
              /\ call.chunks[i + 1].start_char <= call.chunks[i].end_char

\* C27: chunk_text terminates for every text and every combination of
\* chunk_size, chunk_overlap, min_chunk_size and max_chunk_size: each loop
\* iteration that does not stop moves start strictly forward, so the call
\* returns after at most one iteration for each position of the text, and no
\* chunk offset range is emitted twice. (What an iteration does depends on
\* start alone: a call that makes more iterations than the text has
\* positions has repeated a start and never returns.)
C27_ChunkTextTerminates ==
    /\ [][(call.at = "while" /\ call'.at = "while") => call'.start > call.start]_vars
    /\ [](call.iterations <= Len(call.text))
    /\ [](~call.twice)

\* the text placed in source block i differs from the text of the chunk
Shortened(i) == last.context.sources[i].text # last.chunks[i].text

EndsAtTerminator(text) == text # << >> /\ IsTerminator(text[Len(text)])

EndsWithDots(text) ==
    Len(text) >= 3 /\ SubSeq(text, Len(text) - 2, Len(text)) = <<".", ".", ".">>

\* C22: whenever assemble_context shortens a chunk's text because it is
\* longer than the available budget, the text placed in the context consists
\* of whole leading sentences (it ends at a sentence terminator . ! ?) or is
\* cut at the last whitespace before the limit and ends with "..."; it is
\* never cut mid-word without the "..." marker.
C22_TruncationAtBoundary ==
    AssembleReturned =>
        \A i \in 1..Len(last.context.sources) :
            Shortened(i) =>
                \/ EndsAtTerminator(last.context.sources[i].text)
                \/ EndsWithDots(last.context.sources[i].text)

\* C23: for an LRUCache with maxsize >= 1 used by one caller at a time, after
\* any sequence of get, put and clear calls the number of stored entries is
\* at most maxsize, and a get of a key returns the value of the most recent
\* put of that key unless the key has since been evicted or cleared, or was
\* never put (then None).
C23_LruBoundedAndCurrent ==
    call.fn = "LRUCache" =>
        /\ Len(call.cache) <= call.maxsize
        /\ call.op = "get" =>
              call.result = IF call.key \in call.gone THEN "None"
                            ELSE call.lastput[call.key]

\* a get has returned the value of the second put of its key, after another
\* key was evicted
C23_Witness ==
    /\ call.fn = "LRUCache"
    /\ call.op = "get"
    /\ call.result = "v2"
    /\ call.gone # {}
    /\ Len(call.cache) = call.maxsize
    /\ call.nOps = MaxCacheOps

\* the key of the cache whose last access is the oldest
OldestAccessed(c) ==
    CHOOSE k \in CacheKeySet(c.cache) :
        \A j \in CacheKeySet(c.cache) : c.accessed[k] <= c.accessed[j]

\* C24: LRUCache.put of a key not in a full cache evicts exactly one entry,
\* the one whose last access (successful get or put) is oldest; put of a key
\* already present evicts nothing and makes that key the most recently used;
\* get of an absent key changes nothing.
C24_LruEvictionOrder ==
    [][(call.fn = "LRUCache" /\ call'.nOps = call.nOps + 1) =>
         LET old == CacheKeySet(call.cache)
             new == CacheKeySet(call'.cache)
             k == call'.key
         IN /\ (call'.op = "put" /\ k \notin old /\ Len(call.cache) >= call.maxsize)
                  => /\ old \ new = {OldestAccessed(call)}
                     /\ new = (old \ {OldestAccessed(call)}) \cup {k}
            /\ (call'.op = "put" /\ k \in old)
                  => /\ new = old
                     /\ call'.cache[Len(call'.cache)].key = k
            /\ (call'.op = "get" /\ k \notin old)
                  => call'.cache = call.cache]_vars

\* a put into a full cache has just evicted a key that was put after a key
\* that stays, because a get had refreshed the older one
C24_Witness ==
    /\ call.fn = "LRUCache"
    /\ call.op = "put"
    /\ Len(call.cache) = call.maxsize
    /\ \E g \in call.gone, k \in CacheKeySet(call.cache) :
          /\ k # call.key
          /\ call.putat[g] > call.putat[k]
          /\ call.accessed[k] > call.putat[g]

\* C25: in every assemble_context result the citations correspond one to one
\* and in order to the SOURCE blocks of the context, and at most top_k chunks
\* are cited; when the call ran retrieve_chunks, the cited chunks are a prefix
\* of the ranked list it returned, so that a lower-ranked chunk is never
\* included when a higher-ranked one was left out.
C25_CitationsArePrefix ==
    AssembleReturned =>
        /\ Len(last.citations) = Len(last.context.sources)
        /\ \A i \in 1..Len(last.citations) :
              /\ last.context.sources[i].n = i
              /\ last.context.sources[i].doc_id = last.citations[i].doc_id
              /\ last.context.sources[i].chunk_id = last.citations[i].chunk_id
              /\ last.context.sources[i].page = last.citations[i].page
        /\ Len(last.citations) <= last.key[2]
        /\ ~last.hit =>
              /\ Len(last.citations) <= Len(last.chunks)
              /\ \A i \in 1..Len(last.citations) :
                    /\ last.citations[i].doc_id = last.chunks[i].doc_id
                    /\ last.citations[i].chunk_id = last.chunks[i].chunk_id_num
                    /\ last.citations[i].similarity = last.chunks[i].similarity

\* the budget let in the first of the three retrieved chunks only
C25_Witness ==
    /\ AssembleReturned
    /\ ~last.hit
    /\ Len(last.chunks) = 3
    /\ Len(last.citations) = 1

\* C26: in an index_document_chunks run a batch is recorded in the report's
\* error list only if it was skipped: no batch whose embeddings and ids were
\* added to the accumulated upsert also produces an error entry, whether its
\* embeddings came from the first attempt or from the OutOfMemory retry.
C26_ErrorsOnlyForSkippedBatches ==
    last.op = "index" =>
        \A i \in 1..Len(last.log) :
            last.log[i].embedded => last.log[i].errors = << >>

ErrorWithEntries(docs, store, d) ==
    docs[d].status = "error" /\ IdsOfDoc(store, d) # {}

\* C28: in every state reachable by ingest, index and delete operations
\* against a working vector store, a document whose status is error has no
\* entries in the vector store.
C28_ErrorDocHasNoEntries ==
    \A d \in Docs : ~ErrorWithEntries(documents, vstore, d)

\* How an error document comes by entries: the only step after which it has
\* entries that it did not have as an error document before is the upsert of
\* an index run on it; ingestion and deletion never leave it any.
ErrorDocEntriesOnlyByIndex ==
    [][\A d \in Docs :
          ErrorWithEntries(documents', vstore', d) =>
              \/ ErrorWithEntries(documents, vstore, d)
              \/ pc = "idx_persist" /\ idx.doc_id = d]_vars

\* an ingestion failed after its chunk rows were committed, an index run on
\* the document has returned, and the document is still in error
IndexedErrorDocument ==
    /\ last.op = "index"
    /\ last.outcome = "returned"
    /\ ErrorWithEntries(documents, vstore, last.doc_id)
    /\ documents[last.doc_id].error_message = "embedding failed"


\* C29: every citation and every source of a response of the query endpoint
\* references an existing document whose user_id is the requesting user's;
\* the context handed to the LLM in the same request is the one assembled
\* before the filter, and C29_Witness is a response whose context holds a
\* chunk of a document the user does not own.
QueryReturned == last.op = "query" /\ last.outcome = "returned"

OwnedBy(doc_id, user) == Exists(doc_id) /\ user_ids[doc_id] = user

C29_CitationsOwnedByUser ==
    QueryReturned =>
        /\ \A i \in 1..Len(last.citations) :
              OwnedBy(last.citations[i].doc_id, last.user)
        /\ \A i \in 1..Len(last.sources) :
              OwnedBy(last.sources[i].doc_id, last.user)
        /\ Len(last.sources) = Len(last.citations)
        /\ \A i \in 1..Len(last.assembled) :
              \E j \in 1..Len(last.llm_context.sources) :
                  /\ last.llm_context.sources[j].doc_id = last.assembled[i].doc_id
                  /\ last.llm_context.sources[j].chunk_id = last.assembled[i].chunk_id

\* a response that cites the user's own document while the context given to
\* the LLM also holds a chunk of another user's document
C29_Witness ==
    /\ QueryReturned
    /\ last.citations # << >>
    /\ \E j \in 1..Len(last.llm_context.sources) :
          LET d == last.llm_context.sources[j].doc_id
          IN Exists(d) /\ user_ids[d] \in Users \ {last.user}


\* C30: no step of index_document_chunks changes the relational store.  From
\* the lookup of the document to the report, whether the run succeeds, skips
\* batches, meets an OutOfMemory at the minimum batch size or fails in the
\* upsert, the row of every document (status, counters, error_message) and
\* every chunk row stay as they were.
IndexRunStep ==
    \/ pc \in {"idx_batch", "idx_persist"}
    \/ pc = "idle" /\ nIndex' = nIndex + 1

C30_IndexLeavesRelationalStore ==
    [][IndexRunStep => documents' = documents /\ chunk_rows' = chunk_rows]_vars

\* a run on an indexed document has ended with errors in its report
C30_Witness ==
    /\ last.op = "index"
    /\ last.errors # << >>
    /\ documents[last.doc_id].status = "indexed"

====
